---- MODULE Spec2Model ----
(***************************************************************************)
(* Model of the document-ai-processor server: the text extraction pipeline *)
(* (services/documentProcessor.js), the upload and delete routes of        *)
(* server/index.js with the FormData and KeyValueIndex stores, and         *)
(* ChatService.processQuery, the AIService provider gateway, the          *)
(* KeyValueIndexService with its search route, and the chat routes with    *)
(* the ChatHistory store.                                                  *)
(*                                                                         *)
(* Every await of the source is a suspension point: the code between two   *)
(* awaits is one action.  External collaborators (pdf-parse, sharp,        *)
(* Tesseract, Google Vision, the AI provider, MongoDB) are modelled by the *)
(* set of outcomes they can deliver (a value or a thrown error).           *)
(***************************************************************************)
EXTENDS Integers, Sequences, FiniteSets, TLC

(***************************************************************************)
(* Bounds of the model.                                                    *)
(***************************************************************************)
MaxUploads == 1      \* concurrent POST /api/process-document requests
MaxDeletes == 1      \* concurrent DELETE /api/documents/:id requests
MaxChats   == 2      \* concurrent ChatService.processQuery calls
MaxCalls   == 1      \* concurrent direct calls of extractText
MaxAiCalls == 1      \* concurrent calls of the AIService methods
MaxDocs    == 2      \* documents indexed through KeyValueIndexService
MaxKeyLen  == 3      \* length of the keys normalizeKey is applied to
MaxPosts   == 2      \* concurrent requests of the chat routes

Uploads == 1..MaxUploads
Deletes == 1..MaxDeletes
Chats   == 1..MaxChats

VARIABLES
    visionClient,   \* DocumentProcessor.visionClient: TRUE iff a client was constructed
    dp,             \* dp[u]: the frame of the extractText call made for upload u
    fs,             \* files that exist on disk: <<"upload", u>>, <<"temp", u>>
    up,             \* up[u]: the POST /api/process-document request u
    formData,       \* the FormData collection (set of documents)
    kvIndex,        \* the KeyValueIndex collection (sequence of entries, insertion order)
    del,            \* del[d]: the DELETE /api/documents/:id request d
    chat,           \* chat[q]: the ChatService.processQuery call q
    env,            \* process.env: AI_PROVIDER, CLAUDE_API_KEY, GOOGLE_API_KEY
    selectedProvider, \* AIService.selectedProvider: the class name of the provider
    ai,             \* ai[k]: the call k of an AIService method
    ix,             \* the last call served by KeyValueIndexService
    nk,             \* a key and what normalizeKey made of it
    mk,             \* the last call of the MockProvider
    chatHistory,    \* the ChatHistory collection (sequence of documents, insertion order)
    cq,             \* cq[k]: the request k of the chat routes
    answered,       \* answered[s]: the queries of session s stored since its last clear
    now             \* the clock (Date.now(), in milliseconds) when it was last read

vars == <<visionClient, dp, fs, up, formData, kvIndex, del, chat,
          env, selectedProvider, ai, ix, nk, mk, chatHistory, cq, answered, now>>

config   == <<visionClient, env, selectedProvider>>   \* fixed when the process starts
requests == <<up, del, chat>>
stores   == <<formData, kvIndex>>
calls    == <<ai, ix, nk, mk>>
sessions == <<chatHistory, cq, answered, now>>

(***************************************************************************)
(* Text.  A string is represented by the number of characters it holds of  *)
(* each class the code distinguishes:                                      *)
(*   pad    leading/trailing whitespace (what String.trim() removes)       *)
(*   ws     whitespace inside the text                                     *)
(*   srnt   the lower-case letters s, r, n, t                              *)
(*   alnum  every other character of [a-zA-Z0-9]                           *)
(*   bslash the backslash                                                  *)
(*   sym    every other character                                          *)
(***************************************************************************)
Txt(pad, ws, srnt, alnum, bslash, sym) ==
    [pad |-> pad, ws |-> ws, srnt |-> srnt, alnum |-> alnum,
     bslash |-> bslash, sym |-> sym]

EmptyText == Txt(0, 0, 0, 0, 0, 0)

\* String.prototype.trim
Trim(t) == [t EXCEPT !.pad = 0]

\* String.prototype.length
Length(t) == t.pad + t.ws + t.srnt + t.alnum + t.bslash + t.sym


(***************************************************************************)
(* Strings the code inspects character by character (keys, environment     *)
(* values, query parameters) are sequences of one-character strings.       *)
(***************************************************************************)
UpperCase == <<"A", "B", "C", "D", "E", "F", "G", "H", "I", "J", "K", "L", "M",
               "N", "O", "P", "Q", "R", "S", "T", "U", "V", "W", "X", "Y", "Z">>
LowerCase == <<"a", "b", "c", "d", "e", "f", "g", "h", "i", "j", "k", "l", "m",
               "n", "o", "p", "q", "r", "s", "t", "u", "v", "w", "x", "y", "z">>
Digits    == <<"0", "1", "2", "3", "4", "5", "6", "7", "8", "9">>

Range(s) == {s[i] : i \in 1..Len(s)}

\* the class \s
IsWhitespace(c) == c \in {" ", "\t", "\n"}

\* the class \w
IsWordChar(c) == c \in Range(UpperCase) \cup Range(LowerCase) \cup Range(Digits) \cup {"_"}

\* String.prototype.toLowerCase
toLowerCase(s) ==
    [i \in 1..Len(s) |->
        IF s[i] \in Range(UpperCase)
        THEN LowerCase[CHOOSE j \in 1..Len(UpperCase) : UpperCase[j] = s[i]]
        ELSE s[i]]

RECURSIVE trimStart(_)
trimStart(s) ==
    IF s # <<>> /\ IsWhitespace(Head(s)) THEN trimStart(Tail(s)) ELSE s

RECURSIVE trimEnd(_)
trimEnd(s) ==
    IF s # <<>> /\ IsWhitespace(s[Len(s)])
    THEN trimEnd(SubSeq(s, 1, Len(s) - 1))
    ELSE s

\* String.prototype.trim
trim(s) == trimEnd(trimStart(s))

\* String.prototype.includes
includes(s, t) ==
    \E i \in 0..(Len(s) - Len(t)) : SubSeq(s, i + 1, i + Len(t)) = t

(***************************************************************************)
(* Errors.  An Error object is its message and its processingStep          *)
(* property ("undefined" while the property was never assigned).  A        *)
(* message is the sequence of its parts, so that a template literal is the *)
(* concatenation of its fixed parts and the embedded messages.             *)
(***************************************************************************)
Error(message, processingStep) ==
    [message |-> message, processingStep |-> processingStep]

NoError == Error(<<>>, "undefined")

UnsupportedTypeMsg(mimeType) == <<"Unsupported file type: ", mimeType>>
InvalidPdfMsg      == <<"File does not appear to be a valid PDF">>
ScannedPdfMsg      == <<"This PDF appears to contain scanned images or forms that require OCR processing.",
                        "1. Convert the PDF to JPG/PNG format and upload the image instead",
                        "2. Use a PDF with selectable text content",
                        "3. For automatic PDF processing, install ImageMagick or GraphicsMagick on your system">>
VisionNotInitMsg   == <<"Google Cloud Vision client not initialized">>
\* messages of errors thrown by the libraries
PdfParseMsg        == <<"pdf-parse: bad XRef entry">>
VisionApiMsg       == <<"vision: 14 UNAVAILABLE">>
SharpMsg           == <<"sharp: Input file contains unsupported image format">>
TesseractMsg       == <<"tesseract: recognize failed">>

\* the message of combinedError in extractFromImage
ImageCombinedMsg(visionMessage, tesseractMessage) ==
    <<"Failed to extract text from image. Google Vision error: ">> \o visionMessage
        \o <<". Tesseract error: ">> \o tesseractMessage

\* the message of combinedError in extractFromPDF
PdfCombinedMsg(message, ocrMessage) ==
    <<"PDF processing failed: ">> \o message \o <<". ">> \o ocrMessage

(***************************************************************************)
(* Inputs of the pipeline.                                                 *)
(***************************************************************************)
AllowedTypes == {"application/pdf", "image/jpeg", "image/jpg", "image/png"}
MimeTypes    == AllowedTypes \cup {"text/plain", "image/gif"}

\* what pdf-parse may deliver as data.text
PdfTexts ==
    { Txt(2, 0, 0, 0, 0, 0),      \* whitespace only
      Txt(0, 1, 2, 8, 0, 0),      \* 11 characters of readable text
      Txt(1, 3, 4, 20, 0, 2),     \* readable text, longer than 20
      Txt(0, 5, 0, 3, 0, 20),     \* mostly symbols
      Txt(0, 0, 0, 9, 0, 21),     \* 9 alphanumeric characters of 30
      Txt(0, 0, 21, 0, 0, 0),     \* only the letter s
      Txt(0, 0, 0, 0, 21, 0),     \* only backslashes
      Txt(0, 10, 0, 9, 0, 12),    \* 9 alphanumeric characters, 12 symbols, 10 spaces
      Txt(0, 0, 7, 0, 0, 20) }    \* 7 letters s among 20 symbols

\* what an OCR engine may deliver as the recognised text
OcrTexts ==
    { EmptyText,
      Txt(2, 0, 0, 0, 0, 0),      \* whitespace only
      Txt(1, 2, 3, 9, 0, 1) }

(***************************************************************************)
(* extractFromPDF: the meaningful-text heuristic.                          *)
(***************************************************************************)
MinTextLength == 20
RatioNum      == 3
RatioDen      == 10

\* cleanText.replace(/[\\s\\n\\r\\t]/g, '').length : the class holds the
\* backslash and the letters s, n, r, t
meaningfulChars(cleanText) ==
    Length(cleanText) - cleanText.bslash - cleanText.srnt

\* (cleanText.match(/[a-zA-Z0-9]/g) || []).length
alphanumericChars(cleanText) == cleanText.srnt + cleanText.alnum

\* a / m > 0.3 in IEEE arithmetic: x/0 is Infinity for x > 0 and 0/0 is NaN
RatioExceeds(a, m) ==
    IF m = 0 THEN a > 0 ELSE RatioDen * a > RatioNum * m

HasReadableText(cleanText) ==
    /\ Length(cleanText) > MinTextLength
    /\ RatioExceeds(alphanumericChars(cleanText), meaningfulChars(cleanText))


(***************************************************************************)
(* The frame of one extractText call.                                      *)
(*   pc                  the await the call is suspended at                *)
(*   site                the call site of the pending extractFromScannedPDF*)
(*                       or extractWithTesseract: 1 in the try block, 2 in *)
(*                       the catch block of the caller                     *)
(*   processedImagePath  extractWithTesseract's local: FALSE is null       *)
(*   caught              the error bound by the caller's catch clause      *)
(*   result              how the call settled                              *)
(*   log                 the stages invoked so far and how each ended      *)
(***************************************************************************)
NoResult == [kind |-> "none", text |-> EmptyText, error |-> NoError]

IdleFrame ==
    [pc |-> "idle", mimeType |-> "", headerOk |-> FALSE, site |-> 0,
     processedImagePath |-> FALSE, caught |-> NoError, result |-> NoResult,
     log |-> <<>>]

NewFrame(mimeType, headerOk) ==
    [IdleFrame EXCEPT !.pc = "extractText", !.mimeType = mimeType,
                      !.headerOk = headerOk]

Returned(op, text) == [op |-> op, threw |-> FALSE, text |-> text, error |-> NoError]
Threw(op, error)   == [op |-> op, threw |-> TRUE, text |-> EmptyText, error |-> error]

Logged(f, entry) == [f EXCEPT !.log = Append(@, entry)]

\* faulty variant: the catch block overwrites the tag of every error
extractTextCatchOverwrites(error) ==
    [error EXCEPT !.processingStep = "UNKNOWN"]

\* the catch block of extractText (documentProcessor.js 37-43)
extractTextCatch(error) ==
    IF error.processingStep = "undefined"
    THEN [error EXCEPT !.processingStep = "UNKNOWN"]
    ELSE error

\* extractText resolves with text
Resolve(f, text) ==
    [f EXCEPT !.pc = "done",
              !.result = [kind |-> "text", text |-> text, error |-> NoError]]

\* an error leaves extractFromPDF / extractFromImage and passes extractText's catch
Reject(f, error) ==
    [f EXCEPT !.pc = "done",
              !.result = [kind |-> "error", text |-> EmptyText,
                          error |-> extractTextCatch(error)]]

TempFile(c)   == <<"temp", c>>
UploadFile(c) == <<"upload", c>>

(***************************************************************************)
(* extractText (documentProcessor.js 24-44)                                *)
(***************************************************************************)
IsImageType(mimeType) == mimeType \in {"image/jpeg", "image/jpg", "image/png"}

extractText(c) ==
    /\ dp[c].pc = "extractText"
    /\ dp' = [dp EXCEPT ![c] =
                IF dp[c].mimeType = "application/pdf"
                THEN [dp[c] EXCEPT !.pc = "extractFromPDF"]
                ELSE IF IsImageType(dp[c].mimeType)
                THEN [dp[c] EXCEPT !.pc = "extractFromImage"]
                ELSE Reject(dp[c], Error(UnsupportedTypeMsg(dp[c].mimeType),
                                         "FILE_TYPE_CHECK"))]
    /\ UNCHANGED <<config, calls, sessions, fs, requests, stores>>

(***************************************************************************)
(* extractFromPDF (documentProcessor.js 46-105)                            *)
(***************************************************************************)
ScannedPdfError == Error(ScannedPdfMsg, "PDF_IMAGE_CONVERSION_UNAVAILABLE")

\* the catch block of extractFromPDF up to its await (lines 77-90)
extractFromPDFCatch(f, error) ==
    IF error.processingStep = "PDF_IMAGE_CONVERSION_UNAVAILABLE"
    THEN Reject(f, error)
    ELSE [f EXCEPT !.caught = [error EXCEPT !.processingStep = "PDF_TEXT_EXTRACTION"],
                   !.pc = "extractFromScannedPDF", !.site = 2]

\* faulty variant: the inner catch block does not pass the scanned-PDF error through
extractFromPDFOcrCatchCombines(f, ocrError) ==
    [f EXCEPT !.pc = "done",
              !.result = [kind |-> "error", text |-> EmptyText,
                          error |-> Error(PdfCombinedMsg(f.caught.message, ocrError.message),
                                          "PDF_COMPLETE_FAILURE")]]

\* the inner catch block of extractFromPDF (lines 91-103)
extractFromPDFOcrCatch(f, ocrError) ==
    IF ocrError.processingStep = "PDF_IMAGE_CONVERSION_UNAVAILABLE"
    THEN Reject(f, ocrError)
    ELSE Reject(f, Error(PdfCombinedMsg(f.caught.message, ocrError.message),
                         "PDF_COMPLETE_FAILURE"))

\* lines 48-57: read the file, check the header, call pdfParse
extractFromPDF(c) ==
    /\ dp[c].pc = "extractFromPDF"
    /\ LET f == Logged(dp[c], Returned("readFileSync", EmptyText)) IN
       dp' = [dp EXCEPT ![c] =
                IF ~f.headerOk
                THEN extractFromPDFCatch(f, Error(InvalidPdfMsg, "undefined"))
                ELSE [f EXCEPT !.pc = "pdfParse"]]
    /\ UNCHANGED <<config, calls, sessions, fs, requests, stores>>

\* lines 57-75: pdfParse settles; the heuristic
pdfParse(c) ==
    /\ dp[c].pc = "pdfParse"
    /\ \/ LET error == Error(PdfParseMsg, "undefined")
              f == Logged(dp[c], Threw("pdfParse", error)) IN
          dp' = [dp EXCEPT ![c] = extractFromPDFCatch(f, error)]
       \/ \E text \in PdfTexts :
            LET f == Logged(dp[c], Returned("pdfParse", text))
                cleanText == Trim(text) IN
            dp' = [dp EXCEPT ![c] =
                     IF HasReadableText(cleanText)
                     THEN Resolve(f, cleanText)
                     ELSE [f EXCEPT !.pc = "extractFromScannedPDF", !.site = 1]]
    /\ UNCHANGED <<config, calls, sessions, fs, requests, stores>>

\* extractFromScannedPDF (lines 185-204) and what its caller does with the throw
extractFromScannedPDF(c) ==
    /\ dp[c].pc = "extractFromScannedPDF"
    /\ LET f == Logged(dp[c], Threw("extractFromScannedPDF", ScannedPdfError)) IN
       dp' = [dp EXCEPT ![c] =
                IF f.site = 1
                THEN extractFromPDFCatch(f, ScannedPdfError)
                ELSE extractFromPDFOcrCatch(f, ScannedPdfError)]
    /\ UNCHANGED <<config, calls, sessions, fs, requests, stores>>


(***************************************************************************)
(* extractFromImage (documentProcessor.js 206-233)                         *)
(***************************************************************************)
\* the catch block of extractFromImage up to its await (lines 219-224)
extractFromImageCatch(f, visionError) ==
    [f EXCEPT !.caught = [visionError EXCEPT !.processingStep = "GOOGLE_VISION_OCR"],
              !.pc = "preprocessImage", !.site = 2]

\* the inner catch block of extractFromImage (lines 225-231)
extractFromImageInnerCatch(f, tesseractError) ==
    Reject(f, Error(ImageCombinedMsg(f.caught.message, tesseractError.message),
                    "IMAGE_OCR_COMPLETE_FAILURE"))

\* faulty variant: the text of the cloud OCR is dropped and the local OCR always runs
extractFromImageTextDropped(f, text) ==
    [f EXCEPT !.pc = "preprocessImage", !.site = 1]

\* lines 211-217: what extractFromImage does with the text of the cloud OCR
extractFromImageText(f, text) ==
    IF Length(text) > 0
    THEN Resolve(f, text)
    ELSE [f EXCEPT !.pc = "preprocessImage", !.site = 1]

\* lines 208-209 and extractWithGoogleVision 130-136: up to the textDetection call
extractFromImage(c) ==
    /\ dp[c].pc = "extractFromImage"
    /\ dp' = [dp EXCEPT ![c] =
                IF ~visionClient
                THEN LET error == Error(VisionNotInitMsg, "undefined") IN
                     extractFromImageCatch(
                         Logged(dp[c], Threw("extractWithGoogleVision", error)), error)
                ELSE [dp[c] EXCEPT !.pc = "textDetection"]]
    /\ UNCHANGED <<config, calls, sessions, fs, requests, stores>>

\* extractWithGoogleVision 136-148: textDetection settles
textDetection(c) ==
    /\ dp[c].pc = "textDetection"
    /\ \/ LET error == Error(VisionApiMsg, "GOOGLE_VISION_API") IN
          dp' = [dp EXCEPT ![c] =
                   extractFromImageCatch(
                       Logged(dp[c], Threw("extractWithGoogleVision", error)), error)]
       \/ \E description \in OcrTexts :
            LET text == Trim(description) IN
            dp' = [dp EXCEPT ![c] =
                     extractFromImageText(
                         Logged(dp[c], Returned("extractWithGoogleVision", text)), text)]
    /\ UNCHANGED <<config, calls, sessions, fs, requests, stores>>

(***************************************************************************)
(* extractWithTesseract (documentProcessor.js 151-183) with                *)
(* preprocessImage (107-128)                                               *)
(***************************************************************************)
\* extractWithTesseract returned text to extractFromImage (lines 217, 224)
tesseractReturned(f, text) ==
    Resolve([Logged(f, Returned("extractWithTesseract", text))
                EXCEPT !.processedImagePath = FALSE], text)

\* extractWithTesseract threw to extractFromImage
tesseractThrew(f, error) ==
    LET g == [Logged(f, Threw("extractWithTesseract", error))
                 EXCEPT !.processedImagePath = FALSE] IN
    IF f.site = 1
    THEN extractFromImageCatch(g, error)
    ELSE extractFromImageInnerCatch(g, [error EXCEPT !.processingStep = "TESSERACT_OCR"])

\* the finally block (lines 174-182)
tesseractFinally(files, c, processedImagePath) ==
    IF processedImagePath /\ TempFile(c) \in files
    THEN files \ {TempFile(c)}
    ELSE files

\* lines 152-155 with preprocessImage: sharp(...).toFile(tempPath) settles.  When
\* sharp fails it may already have written (part of) tempPath.
preprocessImage(c) ==
    /\ dp[c].pc = "preprocessImage"
    /\ \/ /\ fs' = fs \cup {TempFile(c)}
          /\ dp' = [dp EXCEPT ![c] = [dp[c] EXCEPT !.pc = "recognize",
                                                   !.processedImagePath = TRUE]]
       \/ \E written \in BOOLEAN :
            LET error == Error(SharpMsg, "IMAGE_PREPROCESSING")
                files == IF written THEN fs \cup {TempFile(c)} ELSE fs IN
            /\ fs' = tesseractFinally(files, c, dp[c].processedImagePath)
            /\ dp' = [dp EXCEPT ![c] =
                        tesseractThrew(dp[c], [error EXCEPT !.processingStep = "TESSERACT_OCR"])]
    /\ UNCHANGED <<config, calls, sessions, requests, stores>>

\* lines 157-182: Tesseract.recognize settles; catch and finally
recognize(c) ==
    /\ dp[c].pc = "recognize"
    /\ fs' = tesseractFinally(fs, c, dp[c].processedImagePath)
    /\ \/ \E text \in OcrTexts :
            dp' = [dp EXCEPT ![c] = tesseractReturned(dp[c], Trim(text))]
       \/ LET error == Error(TesseractMsg, "TESSERACT_OCR") IN
          dp' = [dp EXCEPT ![c] = tesseractThrew(dp[c], error)]
    /\ UNCHANGED <<config, calls, sessions, requests, stores>>

DocumentProcessorStep(c) ==
    \/ extractText(c)
    \/ extractFromPDF(c)
    \/ pdfParse(c)
    \/ extractFromScannedPDF(c)
    \/ extractFromImage(c)
    \/ textDetection(c)
    \/ preprocessImage(c)
    \/ recognize(c)


(***************************************************************************)
(* AIService (aiService.js) and the providers' constructors.               *)
(* An environment variable is unset, or set to a string.                   *)
(***************************************************************************)
Unset == [set |-> FALSE, value |-> <<>>]
EnvVar(value) == [set |-> TRUE, value |-> value]

\* !!apiKey : undefined and the empty string are falsy
Truthy(v) == v.set /\ v.value # <<>>

\* ClaudeProvider's constructor (claudeProvider.js 4-7): this.isAvailable
ClaudeProviderIsAvailable(apiKey) == Truthy(apiKey)

\* GoogleProvider's constructor (googleProvider.js 90-97): this.isAvailable
GoogleProviderIsAvailable(apiKey) == Truthy(apiKey)

\* faulty variant: the configured provider is returned whether or not its key is set
initializeProviderUnchecked(e) ==
    IF ~e.AI_PROVIDER.set THEN "MockProvider"
    ELSE LET aiProvider == toLowerCase(e.AI_PROVIDER.value) IN
         IF aiProvider = <<"c", "l", "a", "u", "d", "e">> THEN "ClaudeProvider"
         ELSE IF aiProvider = <<"g", "o", "o", "g", "l", "e">> THEN "GoogleProvider"
         ELSE "MockProvider"

\* initializeProvider (aiService.js 10-36): the class of the provider returned
initializeProvider(e) ==
    IF ~e.AI_PROVIDER.set THEN "MockProvider"
    ELSE LET aiProvider == toLowerCase(e.AI_PROVIDER.value) IN
         IF aiProvider = <<"c", "l", "a", "u", "d", "e">>
         THEN IF ClaudeProviderIsAvailable(e.CLAUDE_API_KEY)
              THEN "ClaudeProvider" ELSE "MockProvider"
         ELSE IF aiProvider = <<"g", "o", "o", "g", "l", "e">>
         THEN IF GoogleProviderIsAvailable(e.GOOGLE_API_KEY)
              THEN "GoogleProvider" ELSE "MockProvider"
         ELSE "MockProvider"

\* the methods each provider class defines (claudeProvider.js, googleProvider.js,
\* mockProvider.js)
Methods(provider) ==
    IF provider = "ClaudeProvider" THEN {"extractKeyValuePairs"}
    ELSE {"extractKeyValuePairs", "chatQuery"}

\* MockProvider calls no backend
CanFail(provider) == provider # "MockProvider"

\* an error thrown by the backend call of a provider
ProviderError == Error(<<"provider: request failed">>, "undefined")

NotAFunctionMsg(method) == <<"this.selectedProvider.", method, " is not a function">>

ApiKeys   == {Unset, EnvVar(<<>>), EnvVar(<<"k", "e", "y">>)}
Providers == {Unset,
              EnvVar(<<"c", "l", "a", "u", "d", "e">>),
              EnvVar(<<"C", "l", "a", "u", "d", "e">>),
              EnvVar(<<"g", "o", "o", "g", "l", "e">>),
              EnvVar(<<"m", "o", "c", "k">>),
              EnvVar(<<"o", "p", "e", "n", "a", "i">>)}

Envs == [AI_PROVIDER : Providers, CLAUDE_API_KEY : ApiKeys, GOOGLE_API_KEY : ApiKeys,
         NODE_ENV : {Unset}]

\* no provider configured
DefaultEnv == [AI_PROVIDER |-> Unset, CLAUDE_API_KEY |-> Unset, GOOGLE_API_KEY |-> Unset,
               NODE_ENV |-> Unset]

(***************************************************************************)
(* A call of AIService.extractKeyValuePairs or AIService.chatQuery         *)
(*   invoked   the provider classes whose method was invoked               *)
(*   raised    the message of the error raised inside the try block        *)
(*   settled   "pending", "resolved" or "rejected"                         *)
(*   error     the message of the error the call rejected with             *)
(***************************************************************************)
AiCalls == 1..MaxAiCalls

IdleAiCall ==
    [pc |-> "idle", method |-> "", invoked |-> <<>>, raised |-> <<>>,
     settled |-> "pending", error |-> <<>>]

\* faulty variant: the catch block falls back to the mock provider
aiServiceCatchFallsBack(r, error) ==
    [r EXCEPT !.pc = "done", !.settled = "resolved",
              !.invoked = Append(@, "MockProvider")]

\* the catch blocks (aiService.js 45-51, 60-63)
aiServiceCatch(r, error) ==
    [r EXCEPT !.pc = "done", !.settled = "rejected", !.error = error.message]

\* the constructor (aiService.js 6-8), run when the module is loaded
AIService ==
    /\ selectedProvider = "none"
    /\ selectedProvider' = initializeProvider(env)
    /\ UNCHANGED <<visionClient, env, calls, sessions, dp, fs, requests, stores>>

\* aiService.js 38-42, 54-57: a method is called; the provider's method is invoked
aiServiceCall(k) ==
    /\ selectedProvider # "none"
    /\ ai[k].pc = "idle"
    /\ \E method \in {"extractKeyValuePairs", "chatQuery"} :
         LET r == [ai[k] EXCEPT !.method = method] IN
         ai' = [ai EXCEPT ![k] =
                  IF method \in Methods(selectedProvider)
                  THEN [r EXCEPT !.pc = "provider",
                                 !.invoked = Append(@, selectedProvider)]
                  ELSE aiServiceCatch([r EXCEPT !.raised = NotAFunctionMsg(method)],
                                      Error(NotAFunctionMsg(method), "undefined"))]
    /\ UNCHANGED <<config, ix, nk, mk, sessions, dp, fs, requests, stores>>

\* aiService.js 42-51, 57-63: the provider's method settled
aiServiceSettled(k) ==
    /\ ai[k].pc = "provider"
    /\ \/ ai' = [ai EXCEPT ![k] = [@ EXCEPT !.pc = "done", !.settled = "resolved"]]
       \/ /\ CanFail(selectedProvider)
          /\ ai' = [ai EXCEPT ![k] =
                      aiServiceCatch([@ EXCEPT !.raised = ProviderError.message],
                                     ProviderError)]
    /\ UNCHANGED <<config, ix, nk, mk, sessions, dp, fs, requests, stores>>


(***************************************************************************)
(* KeyValueIndexService.normalizeKey (keyValueIndexService.js 5-7)         *)
(***************************************************************************)
\* .replace(/[^\w\s]/g, '')
stripNonWord(s) == SelectSeq(s, LAMBDA c : IsWordChar(c) \/ IsWhitespace(c))

\* .replace(/\s+/g, sep) : every maximal run of whitespace becomes sep
RECURSIVE replaceWhitespace(_, _)
replaceWhitespace(s, sep) ==
    IF s = <<>> THEN <<>>
    ELSE IF IsWhitespace(Head(s))
    THEN <<sep>> \o replaceWhitespace(trimStart(s), sep)
    ELSE <<Head(s)>> \o replaceWhitespace(Tail(s), sep)

\* faulty variant: the key is not lower-cased
normalizeKeyKeepsCase(key) ==
    replaceWhitespace(stripNonWord(trim(key)), "_")

\* faulty variant: whitespace becomes a hyphen, as in a URL slug
normalizeKeyHyphenates(key) ==
    replaceWhitespace(stripNonWord(trim(toLowerCase(key))), "-")

normalizeKey(key) ==
    replaceWhitespace(stripNonWord(trim(toLowerCase(key))), "_")

(***************************************************************************)
(* normalizeKey applied to a key, and again to its result.                 *)
(***************************************************************************)
KeyAlphabet == {"A", "a", "1", "_", " ", "\t", "-", "!"}

KeysUpTo(n) == UNION {[1..m -> KeyAlphabet] : m \in 0..n}

KeyFirstName       == <<"F", "i", "r", "s", "t", " ", "N", "a", "m", "e">>
KeyFirstNameBang   == <<"f", "i", "r", "s", "t", " ", "n", "a", "m", "e", "!">>
KeyFirstNameHyphen == <<"f", "i", "r", "s", "t", "-", "n", "a", "m", "e", "!">>

NormalizeKeys ==
    KeysUpTo(MaxKeyLen) \cup {KeyFirstName, KeyFirstNameBang, KeyFirstNameHyphen}

IdleNormalize == [pc |-> "idle", key |-> <<>>, once |-> <<>>, twice |-> <<>>]

normalizeKeyOnce ==
    /\ nk.pc = "key"
    /\ nk' = [nk EXCEPT !.pc = "once", !.once = normalizeKey(nk.key)]
    /\ UNCHANGED <<config, ai, ix, mk, sessions, dp, fs, requests, stores>>

normalizeKeyTwice ==
    /\ nk.pc = "once"
    /\ nk' = [nk EXCEPT !.pc = "twice", !.twice = normalizeKey(nk.once)]
    /\ UNCHANGED <<config, ai, ix, mk, sessions, dp, fs, requests, stores>>

(***************************************************************************)
(* KeyValueIndexService.indexKeyValuePairs (keyValueIndexService.js 19-65) *)
(* Values are strings; "<null>" and "<undefined>" stand for null and       *)
(* undefined.  Keys are not integer-like, so Object.entries lists them in  *)
(* the order of their first assignment.                                    *)
(***************************************************************************)
Pair(key, value) == [key |-> key, value |-> value]

IsEmptyValue(value) == value \in {"<null>", "<undefined>", ""}

\* pairs[key] = value on an object held as the sequence of its entries
ObjectSet(obj, key, value) ==
    IF \E i \in 1..Len(obj) : obj[i].key = key
    THEN [i \in 1..Len(obj) |->
            IF obj[i].key = key THEN Pair(key, value) ELSE obj[i]]
    ELSE Append(obj, Pair(key, value))

\* lines 27-32: the array format converted to the object format
RECURSIVE ArrayToObject(_, _)
ArrayToObject(keyValuePairs, obj) ==
    IF keyValuePairs = <<>> THEN obj
    ELSE LET pair == Head(keyValuePairs) IN
         ArrayToObject(Tail(keyValuePairs),
                       IF pair.key # <<>> /\ ~IsEmptyValue(pair.value)
                       THEN ObjectSet(obj, pair.key, pair.value)
                       ELSE obj)

\* lines 39-53: one index entry per entry of the object with a non-empty value
IndexEntries(documentId, keyValuePairs, extractedAt) ==
    LET pairs == ArrayToObject(keyValuePairs, <<>>)
        kept  == SelectSeq(pairs, LAMBDA p : ~IsEmptyValue(p.value)) IN
    [i \in 1..Len(kept) |->
        [documentId |-> documentId, key |-> kept[i].key,
         keyNormalized |-> normalizeKey(kept[i].key),
         value |-> kept[i].value, extractedAt |-> extractedAt]]

\* the KeyValueIndex schema (models/KeyValueIndex.js): keyNormalized is a
\* required string, and the required validator refuses the empty string
IsValidEntry(e) == e.keyNormalized # <<>>

\* KeyValueIndex.insertMany(indexEntries) (line 56): the collections it may leave
\* and whether it threw.  The entries are validated before anything is written;
\* a failing write leaves the entries written before it.
insertMany(index, indexEntries) ==
    IF \A i \in 1..Len(indexEntries) : IsValidEntry(indexEntries[i])
    THEN {[index |-> index \o indexEntries, threw |-> FALSE]}
            \cup {[index |-> index \o SubSeq(indexEntries, 1, n), threw |-> TRUE] :
                    n \in 0..(Len(indexEntries) - 1)}
    ELSE {[index |-> index, threw |-> TRUE]}

KeyName      == <<"N", "a", "m", "e">>
KeyEmail     == <<"E", "m", "a", "i", "l">>
KeyEMail     == <<"e", "-", "m", "a", "i", "l">>
KeyUserEmail == <<"U", "s", "e", "r", " ", "E", "m", "a", "i", "l">>
KeyBangs     == <<"!", "!">>

\* what aiService.extractKeyValuePairs may resolve with
KVChoices ==
    { <<>>,
      <<Pair(KeyName, "John Doe")>>,
      <<Pair(KeyName, "John Doe"), Pair(KeyEmail, ""), Pair(KeyName, "J. Doe")>> }

EntriesOf(index, documentId) ==
    SelectSeq(index, LAMBDA e : e.documentId = documentId)

(***************************************************************************)
(* POST /api/process-document (index.js 37-142)                            *)
(*   pc       the await the handler is suspended at                        *)
(*   saved    formData.save() resolved                                     *)
(*   indexed  indexKeyValuePairs was called                                *)
(*   failed   the call whose rejection entered the catch block             *)
(*   status   the status of the response sent, 0 while none was sent       *)
(*   error    the error bound by the catch clause                          *)
(*   body     the body of the error response the catch block sent          *)
(*   provider the provider class whose extractKeyValuePairs returned the   *)
(*            pairs                                                        *)
(*   processingMethod  the tag given to new FormData                       *)
(***************************************************************************)
NoDetails == [present |-> FALSE, message |-> <<>>, stack |-> <<>>,
              processingStep |-> "undefined"]

NoBody == [error |-> "", details |-> NoDetails]

\* error.stack: the name and message of the error, then the frames
Stack(error) == <<"Error: ">> \o error.message \o <<"\n    at ">>

\* faulty variant: the details block is filled in every operating mode
errorResponseAlwaysDetails(e, error) ==
    [error   |-> "Failed to process document. Please try again.",
     details |-> [present |-> TRUE, message |-> error.message, stack |-> Stack(error),
                  processingStep |-> IF error.processingStep = "undefined"
                                     THEN "unknown" ELSE error.processingStep]]

\* index.js 120-138: errorResponse.  isDev is NODE_ENV === 'development' ||
\* NODE_ENV !== 'production'; the fields of the details block taken from the
\* request (filename, mimeType, fileSize, timestamp) are left out.
errorResponse(e, error) ==
    LET isDev == \/ e.NODE_ENV = EnvVar(<<"d", "e", "v", "e", "l", "o", "p", "m", "e", "n", "t">>)
                 \/ e.NODE_ENV # EnvVar(<<"p", "r", "o", "d", "u", "c", "t", "i", "o", "n">>) IN
    [error   |-> "Failed to process document. Please try again.",
     details |-> IF isDev
                 THEN [present |-> TRUE, message |-> error.message,
                       stack |-> Stack(error),
                       processingStep |-> IF error.processingStep = "undefined"
                                          THEN "unknown" ELSE error.processingStep]
                 ELSE NoDetails]

IdleUpload ==
    [pc |-> "idle", keyValuePairs |-> <<>>, provider |-> "none",
     processingMethod |-> <<>>, saved |-> FALSE, indexed |-> FALSE,
     failed |-> "", status |-> 0, error |-> NoError, body |-> NoBody]

MethodTesseract == <<"t", "e", "s", "s", "e", "r", "a", "c", "t">>
MethodMock      == <<"m", "o", "c", "k">>
MethodClaude    == <<"c", "l", "a", "u", "d", "e">>
MethodGoogle    == <<"g", "o", "o", "g", "l", "e">>

\* the enum of formDataSchema.processingMethod (models/FormData.js 28-32)
ProcessingMethods == {MethodTesseract, MethodGoogle, MethodClaude, MethodMock}

\* index.js 81: process.env.AI_PROVIDER || 'tesseract'
processingMethod(e) ==
    IF Truthy(e.AI_PROVIDER) THEN e.AI_PROVIDER.value ELSE MethodTesseract

\* a document of the FormData collection
Document(id, keyValuePairs, method) ==
    [id |-> id, keyValuePairs |-> keyValuePairs, processingMethod |-> method]

\* formData.save() validates the document against the schema before it writes
IsValidDocument(doc) == doc.processingMethod \in ProcessingMethods

Respond(r, status) == [r EXCEPT !.pc = "responded", !.status = status]

\* the catch block (lines 113-141): the response, and the file removed
processDocumentCatch(r, stage, error) ==
    [Respond(r, 500) EXCEPT !.failed = stage, !.error = error,
                            !.body = errorResponse(env, error)]

processDocumentCatchFiles(files, u) == files \ {UploadFile(u)}

\* multer's upload.single('document') with the fileFilter (lines 37-58), and the
\* handler up to its first await
receiveUpload(u) ==
    /\ up[u].pc = "idle"
    /\ \/ \* the request carries no file: 400 'No file uploaded'
          /\ up' = [up EXCEPT ![u] = Respond(@, 400)]
          /\ UNCHANGED <<dp, fs>>
       \/ \* the fileFilter refuses the file: the handler is not run
          /\ \E mimeType \in MimeTypes \ AllowedTypes :
                up' = [up EXCEPT ![u] = [Respond(@, 500) EXCEPT !.failed = "fileFilter"]]
          /\ UNCHANGED <<dp, fs>>
       \/ \E mimeType \in AllowedTypes, headerOk \in BOOLEAN :
          /\ mimeType # "application/pdf" => headerOk = FALSE
          /\ fs' = fs \cup {UploadFile(u)}
          /\ dp' = [dp EXCEPT ![u] = NewFrame(mimeType, headerOk)]
          /\ up' = [up EXCEPT ![u] = [@ EXCEPT !.pc = "extractText"]]
    /\ UNCHANGED <<config, calls, sessions, del, chat, stores>>

\* lines 62-71: extractText settled; its frame is gone
processDocumentText(u) ==
    /\ up[u].pc = "extractText"
    /\ dp[u].pc = "done"
    /\ dp' = [dp EXCEPT ![u] = IdleFrame]
    /\ IF dp[u].result.kind = "error"
       THEN /\ up' = [up EXCEPT ![u] =
                        processDocumentCatch(@, "extractText", dp[u].result.error)]
            /\ fs' = processDocumentCatchFiles(fs, u)
       ELSE IF Length(Trim(dp[u].result.text)) = 0
       THEN /\ up' = [up EXCEPT ![u] = Respond(@, 400)]
            /\ fs' = fs
       ELSE /\ up' = [up EXCEPT ![u] = [@ EXCEPT !.pc = "extractKeyValuePairs"]]
            /\ fs' = fs
    /\ UNCHANGED <<config, calls, sessions, del, chat, stores>>

StoreError    == Error(<<"mongo: operation failed">>, "undefined")

\* lines 71-90: aiService.extractKeyValuePairs settled
processDocumentPairs(u) ==
    /\ up[u].pc = "extractKeyValuePairs"
    /\ \/ /\ CanFail(selectedProvider)
          /\ up' = [up EXCEPT ![u] =
                      processDocumentCatch(@, "extractKeyValuePairs", ProviderError)]
          /\ fs' = processDocumentCatchFiles(fs, u)
       \/ /\ \E keyValuePairs \in KVChoices :
                up' = [up EXCEPT ![u] = [@ EXCEPT !.pc = "save",
                                                  !.keyValuePairs = keyValuePairs,
                                                  !.provider = selectedProvider,
                                                  !.processingMethod =
                                                      processingMethod(env)]]
          /\ fs' = fs
    /\ UNCHANGED <<config, calls, sessions, dp, del, chat, stores>>

\* faulty variant: formData.save() is not awaited, so that indexing starts whether or
\* not the save succeeds
processDocumentSaveUnawaited(u) ==
    /\ up[u].pc = "save"
    /\ \E ok \in BOOLEAN :
         /\ formData' = IF ok
                        THEN formData \cup {Document(u, up[u].keyValuePairs,
                                                         up[u].processingMethod)}
                        ELSE formData
         /\ up' = [up EXCEPT ![u] = [@ EXCEPT !.pc = "indexKeyValuePairs",
                                              !.saved = ok, !.indexed = TRUE]]
    /\ fs' = fs
    /\ UNCHANGED <<config, calls, sessions, dp, del, chat, kvIndex>>

\* lines 90-100: formData.save() settled
processDocumentSave(u) ==
    /\ up[u].pc = "save"
    /\ LET doc == Document(u, up[u].keyValuePairs, up[u].processingMethod) IN
       \/ /\ up' = [up EXCEPT ![u] = processDocumentCatch(@, "save", StoreError)]
          /\ fs' = processDocumentCatchFiles(fs, u)
          /\ UNCHANGED formData
       \/ /\ IsValidDocument(doc)
          /\ formData' = formData \cup {doc}
          /\ up' = [up EXCEPT ![u] = [@ EXCEPT !.pc = "indexKeyValuePairs",
                                               !.saved = TRUE, !.indexed = TRUE]]
          /\ fs' = fs
    /\ UNCHANGED <<config, calls, sessions, dp, del, chat, kvIndex>>

\* lines 94-111: indexKeyValuePairs settled.  insertMany is called only for a
\* non-empty list.  The index entries carry the extraction time of the document;
\* time does not advance while uploads are served.
processDocumentIndex(u) ==
    /\ up[u].pc = "indexKeyValuePairs"
    /\ LET indexEntries == IndexEntries(u, up[u].keyValuePairs, 0) IN
       IF indexEntries = <<>>
       THEN /\ kvIndex' = kvIndex
            /\ fs' = fs \ {UploadFile(u)}
            /\ up' = [up EXCEPT ![u] = Respond(@, 200)]
       ELSE \E outcome \in insertMany(kvIndex, indexEntries) :
            /\ kvIndex' = outcome.index
            /\ IF outcome.threw
               THEN /\ fs' = processDocumentCatchFiles(fs, u)
                    /\ up' = [up EXCEPT ![u] =
                                processDocumentCatch(@, "indexKeyValuePairs", StoreError)]
               ELSE /\ fs' = fs \ {UploadFile(u)}
                    /\ up' = [up EXCEPT ![u] = Respond(@, 200)]
    /\ UNCHANGED <<config, calls, sessions, dp, del, chat, formData>>


(***************************************************************************)
(* DELETE /api/documents/:id (index.js 308-341)                            *)
(***************************************************************************)
IdleDelete ==
    [pc |-> "idle", documentId |-> 0, status |-> 0, removedIndexEntries |-> 0]

\* faulty variant: deleteOne, which removes the first matching entry only
removeDocumentIndexDeletesOne(index, documentId) ==
    IF \E i \in 1..Len(index) : index[i].documentId = documentId
    THEN LET first == CHOOSE i \in 1..Len(index) :
                         /\ index[i].documentId = documentId
                         /\ \A j \in 1..(i - 1) : index[j].documentId # documentId IN
         SubSeq(index, 1, first - 1) \o SubSeq(index, first + 1, Len(index))
    ELSE index

\* KeyValueIndexService.removeDocumentIndex (keyValueIndexService.js 67-76):
\* the collection after deleteMany({ documentId })
removeDocumentIndex(index, documentId) ==
    SelectSeq(index, LAMBDA e : e.documentId # documentId)

\* lines 310-316: FormData.findByIdAndDelete settled
deleteDocument(d) ==
    /\ del[d].pc = "idle"
    /\ \E documentId \in Uploads :
         IF \E doc \in formData : doc.id = documentId
         THEN /\ formData' = {doc \in formData : doc.id # documentId}
              /\ del' = [del EXCEPT ![d] = [@ EXCEPT !.pc = "removeDocumentIndex",
                                                     !.documentId = documentId]]
         ELSE /\ formData' = formData
              /\ del' = [del EXCEPT ![d] =
                           [@ EXCEPT !.pc = "responded", !.documentId = documentId,
                                     !.status = 404]]
    /\ UNCHANGED <<config, calls, sessions, dp, fs, up, chat, kvIndex>>

\* lines 319-325: removeDocumentIndex settled
deleteDocumentIndex(d) ==
    /\ del[d].pc = "removeDocumentIndex"
    /\ kvIndex' = removeDocumentIndex(kvIndex, del[d].documentId)
    /\ del' = [del EXCEPT ![d] =
                 [@ EXCEPT !.pc = "responded", !.status = 200,
                           !.removedIndexEntries =
                               Len(EntriesOf(kvIndex, del[d].documentId))]]
    /\ UNCHANGED <<config, calls, sessions, dp, fs, up, chat, formData>>

(***************************************************************************)
(* KeyValueIndexService: the searches (keyValueIndexService.js 78-155) and *)
(* the calls of the service.                                               *)
(***************************************************************************)
\* find(...).sort({ extractedAt: -1 }): the orders the store may deliver; entries
\* of equal extractedAt come in any order
RECURSIVE SortedNewestFirst(_)
SortedNewestFirst(entries) ==
    IF entries = {} THEN {<<>>}
    ELSE UNION { {<<e>> \o rest : rest \in SortedNewestFirst(entries \ {e})} :
                 e \in {e \in entries :
                          \A f \in entries : e.extractedAt >= f.extractedAt} }

Min(a, b) == IF a < b THEN a ELSE b
Max(a, b) == IF a > b THEN a ELSE b

\* .limit(limit): 0 is no limit, and a negative limit is a limit of its absolute
\* value
Limit(results, limit) ==
    IF limit = 0 THEN results
    ELSE SubSeq(results, 1, Min(IF limit < 0 THEN -limit ELSE limit, Len(results)))

\* [...new Set(values)] : the first occurrences, in order
RECURSIVE Unique(_)
Unique(values) ==
    IF values = <<>> THEN <<>>
    ELSE LET front == Unique(SubSeq(values, 1, Len(values) - 1))
             last  == values[Len(values)] IN
         IF last \in Range(front) THEN front ELSE Append(front, last)

\* lines 86-108: the value searchByKeyExact returns for the entries found
ExactResult(keyName, results) ==
    LET uniqueValues == Unique([i \in 1..Len(results) |-> results[i].value]) IN
    [keyName        |-> keyName,
     totalResults   |-> Len(results),
     totalDocuments |-> Cardinality({results[i].documentId : i \in 1..Len(results)}),
     uniqueValues   |-> uniqueValues,
     valueFrequency |-> [i \in 1..Len(uniqueValues) |->
                            [value |-> uniqueValues[i],
                             count |-> Len(SelectSeq(results,
                                           LAMBDA r : r.value = uniqueValues[i]))]],
     results        |-> results]

\* searchByKeyExact (lines 78-109): the values it may return
searchByKeyExact(index, keyName, limit) ==
    {ExactResult(keyName, Limit(results, limit)) :
        results \in SortedNewestFirst({index[i] : i \in {j \in 1..Len(index) :
                                                          index[j].key = keyName}})}

\* lines 121-140: documentGroups, in the order the documents are first met
RECURSIVE GroupByDocument(_)
GroupByDocument(results) ==
    IF results = <<>> THEN <<>>
    ELSE LET groups == GroupByDocument(SubSeq(results, 1, Len(results) - 1))
             result == results[Len(results)]
             match  == [key |-> result.key, value |-> result.value] IN
         IF \E g \in 1..Len(groups) : groups[g].documentId = result.documentId
         THEN [g \in 1..Len(groups) |->
                 IF groups[g].documentId = result.documentId
                 THEN [groups[g] EXCEPT !.matches = Append(@, match)]
                 ELSE groups[g]]
         ELSE Append(groups, [documentId  |-> result.documentId,
                              extractedAt |-> result.extractedAt,
                              matches     |-> <<match>>])

\* lines 142-150: the value searchByKeyPartial returns for the entries found
PartialResult(keyName, results) ==
    LET groups == GroupByDocument(results) IN
    [keyName        |-> keyName,
     totalDocuments |-> Len(groups),
     totalMatches   |-> Len(results),
     results        |-> groups,
     found          |-> results]

\* searchByKeyPartial (lines 111-155): the values it may return; found is the
\* list the store delivered, kept beside the groups made of it
searchByKeyPartial(index, keyName, limit) ==
    LET normalizedSearch == normalizeKey(keyName) IN
    {PartialResult(keyName, Limit(results, limit)) :
        results \in SortedNewestFirst(
            {index[i] : i \in {j \in 1..Len(index) :
                                 includes(index[j].keyNormalized, normalizedSearch)}})}

\* parseInt: optional whitespace and sign, then the longest run of digits; NaN
\* when there is no digit
RECURSIVE DigitsValue(_, _)
DigitsValue(s, acc) ==
    IF s = <<>> \/ Head(s) \notin Range(Digits) THEN acc
    ELSE DigitsValue(Tail(s),
                     acc * Len(Digits)
                       + (CHOOSE d \in 1..Len(Digits) : Digits[d] = Head(s)) - 1)

parseInt(s) ==
    LET t    == trimStart(s)
        sign == IF t # <<>> /\ Head(t) = "-" THEN -1 ELSE 1
        body == IF t # <<>> /\ Head(t) \in {"-", "+"} THEN Tail(t) ELSE t IN
    IF body = <<>> \/ Head(body) \notin Range(Digits)
    THEN [nan |-> TRUE, value |-> 0]
    ELSE [nan |-> FALSE, value |-> sign * DigitsValue(body, 0)]

DefaultSearchLimit == 100

\* index.js 249: parseInt(limit) || 100
SearchLimit(limit) ==
    LET n == parseInt(limit) IN
    IF n.nan \/ n.value = 0 THEN DefaultSearchLimit ELSE n.value

\* the limit query parameter; an absent parameter is parsed like the empty string
LimitParams == {<<>>, <<"0">>, <<"1">>, <<"-", "1">>, <<"2", "x">>}

SearchKeys == {KeyName, KeyEmail, <<"e", "m", "a", "i", "l">>, KeyBangs}

\* the keyValuePairs handed to indexKeyValuePairs
IndexInputs ==
    KVChoices \cup
    { <<Pair(KeyEmail, "a@b.c"), Pair(KeyEMail, "a@b.c")>>,
      <<Pair(KeyUserEmail, "d@e.f"), Pair(KeyName, "<null>")>>,
      <<Pair(KeyBangs, "x")>> }

Docs == 1..MaxDocs

(***************************************************************************)
(* The last call of the service.                                           *)
(*   indexed   the documents indexed so far; their ids are 1..indexed       *)
(*   before    the collection when the call was made                       *)
(*   returned  the value returned: a count, or a search result             *)
(***************************************************************************)
IdleIndexCall ==
    [op |-> "none", indexed |-> 0, documentId |-> 0, keyValuePairs |-> <<>>,
     keyName |-> <<>>, limit |-> 0, before |-> <<>>, threw |-> FALSE,
     returned |-> 0]

\* indexKeyValuePairs (lines 19-65) called for a new document; the documents are
\* extracted at distinct instants
indexKeyValuePairs ==
    /\ ix.indexed < MaxDocs
    /\ \E keyValuePairs \in IndexInputs :
         LET documentId   == ix.indexed + 1
             indexEntries == IndexEntries(documentId, keyValuePairs, documentId)
             call == [IdleIndexCall EXCEPT !.op = "indexKeyValuePairs",
                                           !.indexed = documentId,
                                           !.documentId = documentId,
                                           !.keyValuePairs = keyValuePairs,
                                           !.before = kvIndex] IN
         IF indexEntries = <<>>
         THEN /\ kvIndex' = kvIndex
              /\ ix' = [call EXCEPT !.returned = 0]
         ELSE \E outcome \in insertMany(kvIndex, indexEntries) :
              /\ kvIndex' = outcome.index
              /\ ix' = IF outcome.threw
                       THEN [call EXCEPT !.threw = TRUE]
                       ELSE [call EXCEPT !.returned = Len(indexEntries)]
    /\ UNCHANGED <<config, ai, nk, mk, sessions, dp, fs, requests, formData>>

\* removeDocumentIndex (lines 67-76) called; deletedCount is what deleteMany removed
removeDocumentIndexCall ==
    /\ \E documentId \in Docs :
         /\ kvIndex' = removeDocumentIndex(kvIndex, documentId)
         /\ ix' = [IdleIndexCall EXCEPT !.op = "removeDocumentIndex",
                                        !.indexed = ix.indexed,
                                        !.documentId = documentId,
                                        !.before = kvIndex,
                                        !.returned = Len(kvIndex) - Len(kvIndex')]
    /\ UNCHANGED <<config, ai, nk, mk, sessions, dp, fs, requests, formData>>

\* GET /api/search/key/:keyName (index.js 240-280)
searchKey ==
    /\ \E keyName \in SearchKeys, exact \in BOOLEAN, limit \in LimitParams :
         LET searchLimit == SearchLimit(limit)
             call == [IdleIndexCall EXCEPT
                         !.op = IF exact THEN "searchByKeyExact"
                                         ELSE "searchByKeyPartial",
                         !.indexed = ix.indexed,
                         !.keyName = keyName,
                         !.limit = searchLimit,
                         !.before = kvIndex] IN
         \/ ix' = [call EXCEPT !.threw = TRUE]
         \/ \E result \in IF exact
                          THEN searchByKeyExact(kvIndex, keyName, searchLimit)
                          ELSE searchByKeyPartial(kvIndex, keyName, searchLimit) :
               ix' = [call EXCEPT !.returned = result]
    /\ UNCHANGED <<config, ai, nk, mk, sessions, dp, fs, requests, stores>>

(***************************************************************************)
(* MockProvider (mockProvider.js).  Regular expressions are data: a        *)
(* character class, a sequence, an alternation, or a greedy repetition     *)
(* (max -1: unbounded).                                                    *)
(***************************************************************************)
Cls(set)          == [op |-> "class", set |-> set]
Cat(parts)        == [op |-> "seq", parts |-> parts]
Alt(parts)        == [op |-> "alt", parts |-> parts]
Rep(re, min, max) == [op |-> "rep", re |-> re, min |-> min, max |-> max]

RECURSIVE Concat(_)
Concat(seqs) == IF seqs = <<>> THEN <<>> ELSE Head(seqs) \o Concat(Tail(seqs))

\* the positions at which a match of re starting at s[i] may end, in the order a
\* backtracking matcher tries them
RECURSIVE Ends(_, _, _)
RECURSIVE EndsCat(_, _, _)
RECURSIVE EndsRep(_, _, _, _, _)
Ends(re, s, i) ==
    CASE re.op = "class" -> IF i <= Len(s) /\ s[i] \in re.set THEN <<i + 1>> ELSE <<>>
      [] re.op = "seq"   -> EndsCat(re.parts, s, i)
      [] re.op = "alt"   -> Concat([k \in 1..Len(re.parts) |-> Ends(re.parts[k], s, i)])
      [] re.op = "rep"   -> EndsRep(re.re, re.min, re.max, s, i)

EndsCat(parts, s, i) ==
    IF parts = <<>> THEN <<i>>
    ELSE LET first == Ends(Head(parts), s, i) IN
         Concat([k \in 1..Len(first) |-> EndsCat(Tail(parts), s, first[k])])

EndsRep(re, min, max, s, i) ==
    LET first == IF max = 0 THEN <<>>
                 ELSE SelectSeq(Ends(re, s, i), LAMBDA e : e > i) IN
    Concat([k \in 1..Len(first) |->
               EndsRep(re, Max(min - 1, 0), max - 1, s, first[k])])
        \o (IF min = 0 THEN <<i>> ELSE <<>>)

\* line.match(re): the leftmost match; its text is capture group 1 of the four
\* expressions below
match(line, re) ==
    LET starts == {i \in 1..(Len(line) + 1) : Ends(re, line, i) # <<>>} IN
    IF starts = {} THEN [found |-> FALSE, text |-> <<>>]
    ELSE LET i == CHOOSE j \in starts : \A k \in starts : j <= k IN
         [found |-> TRUE, text |-> SubSeq(line, i, Ends(re, line, i)[1] - 1)]

Digit  == Cls(Range(Digits))
Letter == Cls(Range(UpperCase) \cup Range(LowerCase))
Lit(c) == Cls({c})

\* /([a-zA-Z0-9._%+-]+@[a-zA-Z0-9.-]+\.[a-zA-Z]{2,})/
EmailRe ==
    Cat(<<Rep(Cls(Letter.set \cup Digit.set \cup {".", "_", "%", "+", "-"}), 1, -1),
          Lit("@"),
          Rep(Cls(Letter.set \cup Digit.set \cup {".", "-"}), 1, -1),
          Lit("."),
          Rep(Letter, 2, -1)>>)

\* /(\(?\d{3}\)?[-.\s]?\d{3}[-.\s]?\d{4})/
PhoneRe ==
    LET separator == Rep(Cls({"-", ".", " ", "\t"}), 0, 1) IN
    Cat(<<Rep(Lit("("), 0, 1), Rep(Digit, 3, 3), Rep(Lit(")"), 0, 1), separator,
          Rep(Digit, 3, 3), separator, Rep(Digit, 4, 4)>>)

\* /(\d{4}-\d{2}-\d{2}|\d{2}\/\d{2}\/\d{4}|\d{1,2}\/\d{1,2}\/\d{2,4})/
DateRe ==
    Alt(<<Cat(<<Rep(Digit, 4, 4), Lit("-"), Rep(Digit, 2, 2), Lit("-"), Rep(Digit, 2, 2)>>),
          Cat(<<Rep(Digit, 2, 2), Lit("/"), Rep(Digit, 2, 2), Lit("/"), Rep(Digit, 4, 4)>>),
          Cat(<<Rep(Digit, 1, 2), Lit("/"), Rep(Digit, 1, 2), Lit("/"), Rep(Digit, 2, 4)>>)>>)

\* /(\$[\d,]+\.?\d*)/
AmountRe ==
    Cat(<<Lit("$"), Rep(Cls(Digit.set \cup {","}), 1, -1), Rep(Lit("."), 0, 1),
          Rep(Digit, 0, -1)>>)

\* String.prototype.split(separator) for a one-character separator
split(s, separator) ==
    LET at == SelectSeq([j \in 1..Len(s) |-> j], LAMBDA j : s[j] = separator) IN
    [k \in 1..(Len(at) + 1) |->
        SubSeq(s, IF k = 1 THEN 1 ELSE at[k - 1] + 1,
                  IF k > Len(at) THEN Len(s) ELSE at[k] - 1)]

\* Array.prototype.join(separator)
RECURSIVE join(_, _)
join(parts, separator) ==
    IF parts = <<>> THEN <<>>
    ELSE IF Len(parts) = 1 THEN parts[1]
    ELSE parts[1] \o <<separator>> \o join(Tail(parts), separator)

KeyPhone  == <<"P", "h", "o", "n", "e">>
KeyDate   == <<"D", "a", "t", "e">>
KeyAmount == <<"A", "m", "o", "u", "n", "t">>

\* lines 11-53: the pairs pushed for one line
linePairs(line) ==
    LET parts == split(line, ":")
        key   == trim(parts[1])
        value == trim(join(Tail(parts), ":"))
        hit(name, re) == IF match(line, re).found
                         THEN <<Pair(name, match(line, re).text)>> ELSE <<>> IN
    (IF ":" \in Range(line) /\ key # <<>> /\ value # <<>>
     THEN <<Pair(key, value)>> ELSE <<>>)
        \o hit(KeyEmail, EmailRe) \o hit(KeyPhone, PhoneRe)
        \o hit(KeyDate, DateRe) \o hit(KeyAmount, AmountRe)

\* lines 7-54: keyValuePairs after the loop over the non-blank lines
rawPairs(text) ==
    LET lines == SelectSeq(split(text, "\n"), LAMBDA line : trim(line) # <<>>) IN
    Concat([k \in 1..Len(lines) |-> linePairs(lines[k])])

MaxPairs == 20

\* faulty variant: the pairs are capped before they are deduplicated
extractKeyValuePairsCapsFirst(text) ==
    Unique(SubSeq(rawPairs(text), 1, Min(MaxPairs, Len(rawPairs(text)))))

\* MockProvider.extractKeyValuePairs (lines 6-61)
extractKeyValuePairs(text) ==
    LET uniquePairs == Unique(rawPairs(text)) IN
    SubSeq(uniquePairs, 1, Min(MaxPairs, Len(uniquePairs)))

DomainTerms ==
    { <<"l", "i", "c", "e", "n", "s", "e">>, <<"n", "u", "m", "b", "e", "r">>,
      <<"n", "a", "m", "e">>, <<"p", "h", "o", "n", "e">>,
      <<"e", "m", "a", "i", "l">>, <<"a", "d", "d", "r", "e", "s", "s">> }

\* lines 68-77: allValues
allValues(documentData) ==
    Concat([d \in 1..Len(documentData) |-> documentData[d].keyValuePairs])

\* lines 80-91: relevantMatches
relevantMatches(userQuery, documentData) ==
    LET queryLower == toLowerCase(userQuery) IN
    SelectSeq(allValues(documentData),
              LAMBDA item :
                  LET keyLower == toLowerCase(item.key) IN
                  \/ includes(queryLower, keyLower)
                  \/ \E term \in DomainTerms :
                        includes(keyLower, term) /\ includes(queryLower, term))

NotFoundMsg ==
    "I couldn't find that information in your documents. Try rephrasing your question."

\* an answer: the fixed message, or the emphasized values (joined by ', '), after
\* 'Found <found> matches: ' and before '...' when found is not 0
Answer(message, found, emphasized) ==
    [message |-> message, found |-> found, emphasized |-> emphasized]

\* MockProvider.chatQuery (lines 63-109)
chatQuery(userQuery, documentData) ==
    LET matches      == relevantMatches(userQuery, documentData)
        uniqueValues == Unique([m \in 1..Len(matches) |-> matches[m].value]) IN
    IF matches = <<>> THEN Answer(NotFoundMsg, 0, <<>>)
    ELSE IF Len(matches) = 1 THEN Answer("", 0, <<matches[1].value>>)
    ELSE IF Len(uniqueValues) <= 3 THEN Answer("", 0, uniqueValues)
    ELSE Answer("", Len(uniqueValues), SubSeq(uniqueValues, 1, 3))

(***************************************************************************)
(* The texts and questions the MockProvider is called with.                *)
(***************************************************************************)
MaxMockLines == 11     \* distinct 'key: $amount' lines of a text
MaxRepeats   == 10     \* repetitions of the first of them, put in front
MaxValues    == 5      \* distinct values stored under one key

\* 'ka: $1', 'kb: $2', ...: a colon pair and an amount each
MockLine(i) == <<"k", LowerCase[i], ":", " ", "$", Digits[(i % Len(Digits)) + 1]>>

SampleLines ==
    { <<>>,
      <<"N", "a", "m", "e", ":", " ", "J", "o", "e">>,
      <<"E", "m", "a", "i", "l", ":", " ", "j", "@", "x", ".", "i", "o">>,
      <<"c", "a", "l", "l", " ", "(", "5", "5", "5", ")", " ", "1", "2", "3", "-",
        "4", "5", "6", "7">>,
      <<"2", "0", "2", "4", "-", "0", "1", "-", "1", "5">>,
      <<"1", "/", "2", "/", "2", "4", " ", "$", "1", ",", "0", "0", "0", ".", "5">>,
      <<"a", ":", "b", ":", "c">>,
      <<":", " ", "x">> }

MockText(n, r, sample) ==
    join([i \in 1..r |-> MockLine(1)] \o [i \in 1..n |-> MockLine(i)] \o <<sample>>,
         "\n")

\* texts of many lines, with and without repetitions, and short texts with a
\* sample line
MockTexts ==
    {MockText(n, r, <<>>) : n \in 0..MaxMockLines, r \in {0, MaxRepeats}}
        \cup {MockText(n, 0, sample) : n \in 0..1, sample \in SampleLines}

ValueNames == <<"Ann", "Bob", "Cid", "Dee", "Eve", "Fay", "Gus">>

\* documents whose pairs hold n distinct names, the first of them d more times
MockDocuments(n, d) ==
    <<[keyValuePairs |-> [i \in 1..n |-> Pair(KeyName, ValueNames[i])]
                           \o <<Pair(KeyPhone, "555")>>],
      [keyValuePairs |-> [i \in 1..d |->
                            Pair(<<"F", "u", "l", "l", " ", "N", "a", "m", "e">>,
                                 ValueNames[1])]]>>

MockQueries ==
    { <<"n", "a", "m", "e", "?">>, <<"T", "h", "e", " ", "N", "A", "M", "E">>,
      <<"p", "h", "o", "n", "e">>, <<"a", "g", "e">> }

\* a call of a method (op) of the MockProvider
IdleMock ==
    [pc |-> "idle", op |-> "", text |-> <<>>, userQuery |-> <<>>, documentData |-> <<>>,
     pairs |-> <<>>, answer |-> Answer("", 0, <<>>)]

mockExtractKeyValuePairs ==
    /\ mk.pc = "called"
    /\ mk.op = "extractKeyValuePairs"
    /\ mk' = [mk EXCEPT !.pc = "done", !.pairs = extractKeyValuePairs(mk.text)]
    /\ UNCHANGED <<config, ai, ix, nk, sessions, dp, fs, requests, stores>>

mockChatQuery ==
    /\ mk.pc = "called"
    /\ mk.op = "chatQuery"
    /\ mk' = [mk EXCEPT !.pc = "done",
                        !.answer = chatQuery(mk.userQuery, mk.documentData)]
    /\ UNCHANGED <<config, ai, ix, nk, sessions, dp, fs, requests, stores>>

(***************************************************************************)
(* ChatService.processQuery (chatService.js 7-65)                          *)
(*   settled   "pending", "resolved" or "rejected"                         *)
(*   type, confidence, error   the fields of the value resolved with       *)
(*   found     documents.length, -1 before the lookup settled              *)
(*   lookup    how FormData.find() settled: "pending", "ok", "threw"       *)
(*   gateway   how aiService.chatQuery settled: "none" while not called,   *)
(*             "called", "ok", "threw"                                     *)
(*   thrown    the message of the error the lookup or the gateway threw    *)
(***************************************************************************)
ContextLimit == 20

Queries == {<<>>, <<"h", "i", "?">>}

IdleChat ==
    [pc |-> "idle", query |-> <<>>, settled |-> "pending", type |-> "",
     confidence |-> "", error |-> <<>>, found |-> -1,
     lookup |-> "pending", gateway |-> "none", thrown |-> <<>>]

\* processQuery(query) is called
NewChat(query) == [IdleChat EXCEPT !.pc = "processQuery", !.query = query]

\* processQuery resolves
ChatResolve(r, type, confidence, message) ==
    [r EXCEPT !.pc = "done", !.settled = "resolved", !.type = type,
              !.confidence = confidence, !.error = message]

\* faulty variant: the catch block rethrows
processQueryCatchRethrows(r, error) ==
    [r EXCEPT !.pc = "done", !.settled = "rejected", !.error = error.message]

\* the catch block (lines 54-64)
processQueryCatch(r, error) ==
    ChatResolve(r, "error", "0.1", error.message)

\* lines 20-41: what processQuery does with the documents found
processQueryDocuments(r, documents) ==
    IF documents = 0
    THEN ChatResolve(r, "no_documents", "0.9", <<>>)
    ELSE [r EXCEPT !.pc = "chatQuery", !.gateway = "called"]

\* lines 8-41: FormData.find()...limit(20).lean() settled
processQuery(q) ==
    /\ chat[q].pc = "processQuery"
    /\ LET r == chat[q] IN
         \/ chat' = [chat EXCEPT ![q] =
                       processQueryCatch([r EXCEPT !.lookup = "threw",
                                                   !.thrown = StoreError.message],
                                         StoreError)]
         \/ LET documents == Min(Cardinality(formData), ContextLimit) IN
            chat' = [chat EXCEPT ![q] =
                       processQueryDocuments([r EXCEPT !.lookup = "ok",
                                                       !.found = documents],
                                             documents)]
    /\ UNCHANGED <<config, calls, sessions, dp, fs, up, del, stores>>

\* lines 41-52: aiService.chatQuery settled
processQueryAnswer(q) ==
    /\ chat[q].pc = "chatQuery"
    /\ IF "chatQuery" \notin Methods(selectedProvider)
       THEN LET error == Error(NotAFunctionMsg("chatQuery"), "undefined") IN
            chat' = [chat EXCEPT ![q] =
                       processQueryCatch([@ EXCEPT !.gateway = "threw",
                                                   !.thrown = error.message],
                                         error)]
       ELSE \/ chat' = [chat EXCEPT ![q] =
                          ChatResolve([@ EXCEPT !.gateway = "ok"],
                                      "ai_response", "0.9", <<>>)]
            \/ /\ CanFail(selectedProvider)
               /\ chat' = [chat EXCEPT ![q] =
                             processQueryCatch([@ EXCEPT !.gateway = "threw",
                                                         !.thrown = ProviderError.message],
                                               ProviderError)]
    /\ UNCHANGED <<config, calls, sessions, dp, fs, up, del, stores>>

(***************************************************************************)
(* The chat routes (index.js 345-450) and the ChatHistory collection.      *)
(* A session id is the one the client sent, or one generated for the       *)
(* request.  A message records the request that pushed it.                 *)
(***************************************************************************)
Posts == {k \in Chats : k <= MaxPosts}

ClientSessionIds == {<<"client", 1>>}
GeneratedSessionId(k) == <<"generated", k>>
NoSessionId == <<"none", 0>>
SessionIds == ClientSessionIds \cup {GeneratedSessionId(k) : k \in Posts}

\* req.body.query
RouteQueries == {<<>>, <<" ">>, <<"h", "i", "?">>, <<" ", "h", "i", "?">>}

Message(type, content, timestamp, k) ==
    [type |-> type, content |-> content, timestamp |-> timestamp, request |-> k]

\* new Date(): the clock is read; it is where it was at the last reading, or later
Readings(t) == {t, t + 1}

\*   messages  the messages the request made (query), or was sent (history)
\*   limit     req.query.limit of a history request
\*   stored    the messages of the document a history request found
IdleChatRequest ==
    [pc |-> "idle", route |-> "", query |-> <<>>, sessionId |-> NoSessionId,
     messages |-> <<>>, limit |-> Unset, stored |-> <<>>, status |-> 0]

\* the documents of a session, in insertion order
SessionsOf(history, sessionId) ==
    SelectSeq(history, LAMBDA h : h.sessionId = sessionId)

\* $push: { messages: { $each: messages } } on the first document of the session
PushMessages(history, sessionId, messages) ==
    LET first == CHOOSE i \in 1..Len(history) :
                    /\ history[i].sessionId = sessionId
                    /\ \A j \in 1..(i - 1) : history[j].sessionId # sessionId IN
    [history EXCEPT ![first].messages = @ \o messages]

\* deleteOne({ sessionId })
DeleteOneSession(history, sessionId) ==
    IF SessionsOf(history, sessionId) = <<>> THEN history
    ELSE LET first == CHOOSE i \in 1..Len(history) :
                         /\ history[i].sessionId = sessionId
                         /\ \A j \in 1..(i - 1) : history[j].sessionId # sessionId IN
         SubSeq(history, 1, first - 1) \o SubSeq(history, first + 1, Len(history))

\* POST /api/chat/query, lines 345-354: the query is checked and processQuery called
postChatQuery(k) ==
    /\ cq[k].pc = "idle"
    /\ chat[k].pc = "idle"
    /\ \E query \in RouteQueries, sessionId \in ClientSessionIds \cup {NoSessionId} :
         LET r == [cq[k] EXCEPT !.route = "query", !.query = query,
                                !.sessionId = sessionId] IN
         IF query = <<>> \/ trim(query) = <<>>
         THEN /\ cq' = [cq EXCEPT ![k] = Respond(r, 400)]
              /\ chat' = chat
         ELSE /\ cq' = [cq EXCEPT ![k] = [r EXCEPT !.pc = "processQuery"]]
              /\ chat' = [chat EXCEPT ![k] = NewChat(trim(query))]
    /\ UNCHANGED <<config, calls, chatHistory, answered, now, dp, fs, up, del, stores>>

\* lines 354-380: processQuery settled; the session id and the two messages
postChatQueryMessages(k) ==
    /\ cq[k].pc = "processQuery"
    /\ chat[k].pc = "done"
    /\ chat' = [chat EXCEPT ![k] = IdleChat]
    /\ IF chat[k].settled = "rejected"
       THEN /\ cq' = [cq EXCEPT ![k] = Respond(@, 500)]
            /\ now' = now
       ELSE \E userTime \in Readings(now) : \E aiTime \in Readings(userTime) :
            /\ cq' = [cq EXCEPT ![k] =
                        [@ EXCEPT !.pc = "findOneAndUpdate",
                                  !.sessionId = IF @ = NoSessionId
                                                THEN GeneratedSessionId(k) ELSE @,
                                  !.messages =
                                      <<Message("user", cq[k].query, userTime, k),
                                        Message("ai", chat[k].type, aiTime, k)>>]]
            /\ now' = aiTime
    /\ UNCHANGED <<config, calls, chatHistory, answered, dp, fs, up, del, stores>>

\* lines 383-390: findOneAndUpdate looks for the session's document.  It pushes
\* the messages to the document found; with upsert, it goes on to insert a new
\* document when none was found.
findOneAndUpdate(k) ==
    /\ cq[k].pc = "findOneAndUpdate"
    /\ \/ /\ cq' = [cq EXCEPT ![k] = Respond(@, 500)]
          /\ UNCHANGED <<chatHistory, answered>>
       \/ /\ SessionsOf(chatHistory, cq[k].sessionId) # <<>>
          /\ chatHistory' = PushMessages(chatHistory, cq[k].sessionId, cq[k].messages)
          /\ answered' = [answered EXCEPT ![cq[k].sessionId] = @ + 1]
          /\ cq' = [cq EXCEPT ![k] = Respond(@, 200)]
       \/ /\ SessionsOf(chatHistory, cq[k].sessionId) = <<>>
          /\ cq' = [cq EXCEPT ![k] = [@ EXCEPT !.pc = "upsert"]]
          /\ UNCHANGED <<chatHistory, answered>>
    /\ UNCHANGED <<config, calls, now, dp, fs, up, del, chat, stores>>

\* the insert of the upsert, and the response (lines 392-400).  sessionId has no
\* unique index (models/ChatHistory.js 4-8), so the insert succeeds whatever
\* other requests inserted meanwhile.
upsert(k) ==
    /\ cq[k].pc = "upsert"
    /\ \/ /\ cq' = [cq EXCEPT ![k] = Respond(@, 500)]
          /\ UNCHANGED <<chatHistory, answered>>
       \/ /\ chatHistory' = Append(chatHistory, [sessionId |-> cq[k].sessionId,
                                                  messages |-> cq[k].messages])
          /\ answered' = [answered EXCEPT ![cq[k].sessionId] = @ + 1]
          /\ cq' = [cq EXCEPT ![k] = Respond(@, 200)]
    /\ UNCHANGED <<config, calls, now, dp, fs, up, del, chat, stores>>

\* DELETE /api/chat/history/:sessionId (lines 438-450)
clearChatHistory(k) ==
    /\ cq[k].pc = "idle"
    /\ chat[k].pc = "idle"
    /\ \E sessionId \in ClientSessionIds :
         LET r == [cq[k] EXCEPT !.route = "clear", !.sessionId = sessionId] IN
         \/ /\ cq' = [cq EXCEPT ![k] = Respond(r, 500)]
            /\ UNCHANGED <<chatHistory, answered>>
         \/ /\ chatHistory' = DeleteOneSession(chatHistory, sessionId)
            /\ answered' = [answered EXCEPT ![sessionId] = 0]
            /\ cq' = [cq EXCEPT ![k] = Respond(r, 200)]
    /\ UNCHANGED <<config, calls, now, dp, fs, up, del, chat, stores>>

\* Array.prototype.sort((a, b) => new Date(a.timestamp) - new Date(b.timestamp)):
\* ascending and stable, messages of equal timestamp keep their order
RECURSIVE sortByTimestamp(_)
sortByTimestamp(messages) ==
    IF messages = <<>> THEN <<>>
    ELSE LET front == sortByTimestamp(SubSeq(messages, 1, Len(messages) - 1))
             last  == messages[Len(messages)]
             n     == Cardinality({i \in 1..Len(front) :
                                     front[i].timestamp <= last.timestamp}) IN
         SubSeq(front, 1, n) \o <<last>> \o SubSeq(front, n + 1, Len(front))

\* Array.prototype.slice(start): a negative start counts from the end, NaN is 0
slice(array, start) ==
    LET from == IF start.nan THEN 0
                ELSE IF start.value < 0 THEN Max(Len(array) + start.value, 0)
                ELSE Min(start.value, Len(array)) IN
    SubSeq(array, from + 1, Len(array))

DefaultHistoryLimit == 50

\* index.js 414 and 424: const { limit = 50 } = req.query, then -parseInt(limit)
HistoryStart(limit) ==
    LET n == IF limit.set THEN parseInt(limit.value)
             ELSE [nan |-> FALSE, value |-> DefaultHistoryLimit] IN
    [n EXCEPT !.value = -@]

\* req.query.limit: absent, or a string
HistoryLimitParams ==
    {Unset, EnvVar(<<"0">>), EnvVar(<<"1">>), EnvVar(<<"3">>), EnvVar(<<"-", "1">>)}

\* GET /api/chat/history/:sessionId (lines 411-436): findOne delivers the first
\* document of the session
getChatHistory(k) ==
    /\ cq[k].pc = "idle"
    /\ chat[k].pc = "idle"
    /\ \E sessionId \in ClientSessionIds, limit \in HistoryLimitParams :
         LET r == [cq[k] EXCEPT !.route = "history", !.sessionId = sessionId,
                                !.limit = limit]
             found == SessionsOf(chatHistory, sessionId) IN
         \/ cq' = [cq EXCEPT ![k] = Respond(r, 500)]
         \/ /\ found = <<>>
            /\ cq' = [cq EXCEPT ![k] = Respond(r, 200)]
         \/ /\ found # <<>>
            /\ cq' = [cq EXCEPT ![k] =
                        Respond([r EXCEPT !.stored = found[1].messages,
                                          !.messages = slice(sortByTimestamp(found[1].messages),
                                                             HistoryStart(limit))],
                                200)]
    /\ UNCHANGED <<config, calls, chatHistory, answered, now, dp, fs, up, del, chat, stores>>


(***************************************************************************)
(* Initial conditions of the components.                                   *)
(***************************************************************************)
\* the environments the server is started in: no provider configured, each
\* cloud provider with its key, and a cloud provider without its key
ServerEnvs ==
    { DefaultEnv,
      [DefaultEnv EXCEPT !.AI_PROVIDER = EnvVar(<<"c", "l", "a", "u", "d", "e">>)],
      [DefaultEnv EXCEPT !.AI_PROVIDER = EnvVar(<<"c", "l", "a", "u", "d", "e">>),
                         !.CLAUDE_API_KEY = EnvVar(<<"k", "e", "y">>)],
      [DefaultEnv EXCEPT !.AI_PROVIDER = EnvVar(<<"g", "o", "o", "g", "l", "e">>),
                         !.GOOGLE_API_KEY = EnvVar(<<"k", "e", "y">>)] }

\* the modules are loaded: aiService.js constructed its AIService
Started ==
    /\ env \in ServerEnvs
    /\ selectedProvider = initializeProvider(env)

\* a server without cloud services
StartedPlain ==
    /\ visionClient = FALSE
    /\ env = DefaultEnv
    /\ selectedProvider = initializeProvider(env)

IdleCalls ==
    /\ ai = [k \in AiCalls |-> IdleAiCall]
    /\ ix = IdleIndexCall
    /\ nk = IdleNormalize
    /\ mk = IdleMock

IdleSessions ==
    /\ chatHistory = <<>>
    /\ cq = [k \in Posts |-> IdleChatRequest]
    /\ answered = [s \in SessionIds |-> 0]
    /\ now = 0

IdleServer ==
    /\ dp = [u \in Uploads |-> IdleFrame]
    /\ fs = {}
    /\ up = [u \in Uploads |-> IdleUpload]
    /\ formData = {}
    /\ kvIndex = <<>>
    /\ del = [d \in Deletes |-> IdleDelete]
    /\ chat = [q \in Chats |-> IdleChat]

(***************************************************************************)
(* The server: uploads and deletions arrive and are served concurrently.   *)
(***************************************************************************)
Init ==
    /\ visionClient \in BOOLEAN
    /\ Started
    /\ IdleCalls
    /\ IdleSessions
    /\ dp = [u \in Uploads |-> IdleFrame]
    /\ fs = {}
    /\ up = [u \in Uploads |-> IdleUpload]
    /\ formData = {}
    /\ kvIndex = <<>>
    /\ del = [d \in Deletes |-> IdleDelete]
    /\ chat = [q \in Chats |-> IdleChat]

Next ==
    \/ \E u \in Uploads :
         \/ receiveUpload(u)
         \/ DocumentProcessorStep(u)
         \/ processDocumentText(u)
         \/ processDocumentPairs(u)
         \/ processDocumentSave(u)
         \/ processDocumentIndex(u)
    \/ \E d \in Deletes : deleteDocument(d) \/ deleteDocumentIndex(d)

Spec == Init /\ [][Next]_vars

(***************************************************************************)
(* Uploads served with the default provider, in each operating mode.       *)
(***************************************************************************)
NodeEnvs ==
    {Unset, EnvVar(<<"p", "r", "o", "d", "u", "c", "t", "i", "o", "n">>),
     EnvVar(<<"d", "e", "v", "e", "l", "o", "p", "m", "e", "n", "t">>),
     EnvVar(<<"t", "e", "s", "t">>)}

InitUpload ==
    /\ visionClient \in BOOLEAN
    /\ env \in {[DefaultEnv EXCEPT !.NODE_ENV = mode] : mode \in NodeEnvs}
    /\ selectedProvider = initializeProvider(env)
    /\ IdleCalls
    /\ IdleSessions
    /\ IdleServer

NextUpload ==
    \E u \in Uploads :
        \/ receiveUpload(u)
        \/ DocumentProcessorStep(u)
        \/ processDocumentText(u)
        \/ processDocumentPairs(u)
        \/ processDocumentSave(u)
        \/ processDocumentIndex(u)

SpecUpload == InitUpload /\ [][NextUpload]_vars

(***************************************************************************)
(* The text extraction pipeline alone: extractText(filePath, mimeType) is  *)
(* called on an existing file of any declared type.                        *)
(***************************************************************************)
Calls == {c \in Uploads : c <= MaxCalls}

InitDP ==
    /\ visionClient \in BOOLEAN
    /\ Started
    /\ IdleCalls
    /\ IdleSessions
    /\ dp \in [Uploads -> {NewFrame(m, h) : m \in MimeTypes, h \in BOOLEAN} \cup {IdleFrame}]
    /\ \A c \in Uploads : dp[c].pc # "idle" <=> c \in Calls
    /\ \A c \in Uploads : dp[c].mimeType # "application/pdf" => ~dp[c].headerOk
    /\ fs = {UploadFile(c) : c \in Calls}
    /\ up = [u \in Uploads |-> IdleUpload]
    /\ formData = {}
    /\ kvIndex = <<>>
    /\ del = [d \in Deletes |-> IdleDelete]
    /\ chat = [q \in Chats |-> IdleChat]

NextDP == \E c \in Calls : DocumentProcessorStep(c)

SpecDP == InitDP /\ [][NextDP]_vars

(***************************************************************************)
(* Chat queries served while documents, uploaded earlier, are deleted.     *)
(***************************************************************************)
StoredDocuments ==
    {Document(u, kv, processingMethod(env)) : u \in Uploads, kv \in KVChoices}

InitChat ==
    /\ visionClient \in BOOLEAN
    /\ Started
    /\ IdleCalls
    /\ IdleSessions
    /\ dp = [u \in Uploads |-> IdleFrame]
    /\ fs = {}
    /\ up = [u \in Uploads |-> IdleUpload]
    /\ formData \in SUBSET StoredDocuments
    /\ \A a, b \in formData : a.id = b.id => a = b
    /\ kvIndex = <<>>
    /\ del = [d \in Deletes |-> IdleDelete]
    /\ chat \in [Chats -> {NewChat(query) : query \in Queries}]

NextChat ==
    \/ \E q \in Chats : processQuery(q) \/ processQueryAnswer(q)
    \/ \E d \in Deletes : deleteDocument(d) \/ deleteDocumentIndex(d)

SpecChat == InitChat /\ [][NextChat]_vars


(***************************************************************************)
(* The provider gateway alone: the module is loaded in any environment,    *)
(* then its methods are called.                                            *)
(***************************************************************************)
InitAI ==
    /\ visionClient \in BOOLEAN
    /\ env \in Envs
    /\ selectedProvider = "none"
    /\ IdleCalls
    /\ IdleSessions
    /\ IdleServer

NextAI ==
    \/ AIService
    \/ \E k \in AiCalls : aiServiceCall(k) \/ aiServiceSettled(k)

SpecAI == InitAI /\ [][NextAI]_vars


(***************************************************************************)
(* normalizeKey alone, on every short key.                                 *)
(***************************************************************************)
InitNormalize ==
    /\ StartedPlain
    /\ ai = [k \in AiCalls |-> IdleAiCall]
    /\ ix = IdleIndexCall
    /\ \E key \in NormalizeKeys : nk = [IdleNormalize EXCEPT !.pc = "key", !.key = key]
    /\ mk = IdleMock
    /\ IdleSessions
    /\ IdleServer

NextNormalize == normalizeKeyOnce \/ normalizeKeyTwice

SpecNormalize == InitNormalize /\ [][NextNormalize]_vars


(***************************************************************************)
(* The MockProvider alone: a text, or a question about documents.          *)
(***************************************************************************)
InitMock ==
    /\ StartedPlain
    /\ ai = [k \in AiCalls |-> IdleAiCall]
    /\ ix = IdleIndexCall
    /\ nk = IdleNormalize
    /\ mk \in {[IdleMock EXCEPT !.pc = "called", !.op = "extractKeyValuePairs",
                                !.text = text] : text \in MockTexts}
             \cup {[IdleMock EXCEPT !.pc = "called", !.op = "chatQuery",
                                    !.userQuery = userQuery,
                                    !.documentData = MockDocuments(n, d)] :
                      userQuery \in MockQueries, n \in 0..MaxValues, d \in 0..2}
    /\ IdleSessions
    /\ IdleServer

NextMock == mockExtractKeyValuePairs \/ mockChatQuery

SpecMock == InitMock /\ [][NextMock]_vars

(***************************************************************************)
(* The index service alone: documents are indexed, removed and searched.   *)
(***************************************************************************)
InitIndex ==
    /\ StartedPlain
    /\ IdleCalls
    /\ IdleSessions
    /\ IdleServer

NextIndex ==
    \/ indexKeyValuePairs
    \/ removeDocumentIndexCall
    \/ searchKey

SpecIndex == InitIndex /\ [][NextIndex]_vars


(***************************************************************************)
(* The chat routes: queries, reads and clears of sessions, served          *)
(* concurrently.                                                           *)
(***************************************************************************)
InitSession ==
    /\ StartedPlain
    /\ IdleCalls
    /\ IdleSessions
    /\ dp = [u \in Uploads |-> IdleFrame]
    /\ fs = {}
    /\ up = [u \in Uploads |-> IdleUpload]
    /\ formData \in {{}, {Document(1, <<Pair(KeyName, "John Doe")>>,
                                    processingMethod(env))}}
    /\ kvIndex = <<>>
    /\ del = [d \in Deletes |-> IdleDelete]
    /\ chat = [q \in Chats |-> IdleChat]

NextSession ==
    \E k \in Posts :
        \/ postChatQuery(k)
        \/ processQuery(k)
        \/ processQueryAnswer(k)
        \/ postChatQueryMessages(k)
        \/ findOneAndUpdate(k)
        \/ upsert(k)
        \/ clearChatHistory(k)
        \/ getChatHistory(k)

SpecSession == InitSession /\ [][NextSession]_vars


(***************************************************************************)
(* Properties                                                              *)
(***************************************************************************)
Completed(r) == r.pc \in {"idle", "responded"}

AllCompleted ==
    /\ \A u \in Uploads : Completed(up[u])
    /\ \A d \in Deletes : Completed(del[d])

InLog(f, op)        == \E i \in 1..Len(f.log) : f.log[i].op = op
ThrewInLog(f, op)   == \E i \in 1..Len(f.log) : f.log[i].op = op /\ f.log[i].threw
TesseractInvoked(f) == f.pc \in {"preprocessImage", "recognize"}
                          \/ InLog(f, "extractWithTesseract")

\* C1: once every request has completed, no index entry references a document
\* that is absent from the FormData store.
C1_DeletionCascades ==
    AllCompleted =>
        \A i \in 1..Len(kvIndex) :
            \E doc \in formData : doc.id = kvIndex[i].documentId

\* C2: when the upload handler has sent its response, the uploaded temporary
\* file no longer exists, whatever the exit path.
C2_UploadedFileRemoved ==
    \A u \in Uploads : up[u].pc = "responded" => UploadFile(u) \notin fs

\* C3: indexKeyValuePairs is invoked, and index entries of an upload exist, only
\* after formData.save() succeeded; an upload whose text extraction, key-value
\* extraction or save failed has no index entry.
C3_IndexOnlyAfterSave ==
    \A u \in Uploads :
        /\ (up[u].indexed \/ EntriesOf(kvIndex, u) # <<>>) => up[u].saved
        /\ up[u].failed \in {"extractText", "extractKeyValuePairs", "save"} =>
              ~up[u].indexed /\ EntriesOf(kvIndex, u) = <<>>

C3_Witness ==
    \E u \in Uploads :
        up[u].status = 200 /\ up[u].indexed /\ EntriesOf(kvIndex, u) # <<>>

\* C4: processQuery never rejects; it resolves with no_documents (0.9, gateway not
\* called) when the lookup finds no document, with ai_response (0.9) when the
\* gateway succeeds, and with error (0.1, the raw message) when the lookup or the
\* gateway throws.
C4_ChatNeverRejects ==
    \A q \in Chats :
        /\ chat[q].settled # "rejected"
        /\ chat[q].pc = "done" =>
              /\ chat[q].settled = "resolved"
              /\ (chat[q].lookup = "ok" /\ chat[q].found = 0) =>
                    /\ chat[q].type = "no_documents"
                    /\ chat[q].confidence = "0.9"
                    /\ chat[q].gateway = "none"
              /\ chat[q].gateway = "ok" =>
                    chat[q].type = "ai_response" /\ chat[q].confidence = "0.9"
              /\ (chat[q].lookup = "threw" \/ chat[q].gateway = "threw") =>
                    /\ chat[q].type = "error"
                    /\ chat[q].confidence = "0.1"
                    /\ chat[q].error = chat[q].thrown
                    /\ chat[q].error # <<>>

C4_Witness ==
    \E q \in Chats :
        chat[q].pc = "done" /\ chat[q].gateway = "threw" /\ chat[q].type = "error"


VisionEntry(e)    == e.op = "extractWithGoogleVision"
TesseractEntry(e) == e.op = "extractWithTesseract"

\* C5: in extractFromImage the cloud OCR is the first stage invoked; the local OCR
\* is invoked only after the cloud OCR threw (unconfigured or failing) or
\* returned empty text; when the cloud OCR returned non-empty text, the call
\* resolves with exactly that text and the local OCR is never invoked.
C5_CloudOcrFirst ==
    \A c \in Uploads :
        LET f == dp[c] IN
        IsImageType(f.mimeType) =>
            /\ f.log # <<>> => VisionEntry(f.log[1])
            /\ TesseractInvoked(f) =>
                  /\ f.log # <<>>
                  /\ f.log[1].threw \/ Length(f.log[1].text) = 0
            /\ (f.log # <<>> /\ ~f.log[1].threw /\ Length(f.log[1].text) > 0) =>
                  /\ f.pc = "done"
                  /\ f.result.kind = "text"
                  /\ f.result.text = f.log[1].text
                  /\ ~TesseractInvoked(f)

C5_Witness ==
    \E c \in Uploads :
        LET f == dp[c] IN
        /\ IsImageType(f.mimeType) /\ f.pc = "done" /\ f.log # <<>>
        /\ VisionEntry(f.log[1]) /\ ~f.log[1].threw /\ Length(f.log[1].text) > 0
        /\ f.result.text = f.log[1].text

\* C6: whenever extractFromImage fails, the error is tagged
\* IMAGE_OCR_COMPLETE_FAILURE and its message embeds, under the Google Vision
\* label, the message of an error the cloud OCR stage threw and, under the
\* Tesseract label, the message of an error the local OCR stage threw.
C6_CombinedErrorNamesBothStages ==
    \A c \in Uploads :
        LET f == dp[c] IN
        (IsImageType(f.mimeType) /\ f.pc = "done" /\ f.result.kind = "error") =>
            /\ f.result.error.processingStep = "IMAGE_OCR_COMPLETE_FAILURE"
            /\ \E i, j \in 1..Len(f.log) :
                  /\ VisionEntry(f.log[i]) /\ f.log[i].threw
                  /\ TesseractEntry(f.log[j]) /\ f.log[j].threw
                  /\ f.result.error.message =
                        ImageCombinedMsg(f.log[i].error.message, f.log[j].error.message)

\* C7: for a file declared application/pdf without the %PDF header, extractText
\* fails with the invalid-format error; neither the PDF parser nor the
\* scanned-PDF fallback is invoked.
C7_InvalidPdfFailsFast ==
    \A c \in Uploads :
        LET f == dp[c] IN
        (f.mimeType = "application/pdf" /\ ~f.headerOk
            /\ f.pc \notin {"extractText", "extractFromPDF"}) =>
            /\ f.pc = "done"
            /\ f.result.kind = "error"
            /\ f.result.error.message = InvalidPdfMsg
            /\ ~InLog(f, "pdfParse")
            /\ ~InLog(f, "extractFromScannedPDF")

C9_TempImageRemoved ==
    \A c \in Uploads : dp[c].pc = "done" => TempFile(c) \notin fs

\* C10: for a mimeType outside the four supported ones, extractText rejects at
\* once with the 'Unsupported file type' error tagged FILE_TYPE_CHECK; no file is
\* read and neither the PDF parser nor an OCR stage is invoked.
C10_UnsupportedType ==
    \A c \in Uploads :
        LET f == dp[c] IN
        (f.pc \notin {"idle", "extractText"} /\ f.mimeType \notin AllowedTypes) =>
            /\ f.pc = "done"
            /\ f.result.kind = "error"
            /\ f.result.error =
                  Error(UnsupportedTypeMsg(f.mimeType), "FILE_TYPE_CHECK")
            /\ f.log = <<>>
            /\ TempFile(c) \notin fs

C10_Witness ==
    \E c \in Uploads :
        /\ dp[c].mimeType = "text/plain" /\ dp[c].pc = "done"
        /\ dp[c].result.error.processingStep = "FILE_TYPE_CHECK"

ConfiguredClaude ==
    env.AI_PROVIDER \in {EnvVar(<<"c", "l", "a", "u", "d", "e">>),
                         EnvVar(<<"C", "l", "a", "u", "d", "e">>)}
ConfiguredGoogle ==
    env.AI_PROVIDER = EnvVar(<<"g", "o", "o", "g", "l", "e">>)
KeyPresent(apiKey) == apiKey = EnvVar(<<"k", "e", "y">>)

\* C11: once the AIService is constructed, the selected provider is the Claude
\* provider iff AI_PROVIDER names claude and CLAUDE_API_KEY is present, the
\* Google provider iff AI_PROVIDER names google and GOOGLE_API_KEY is present,
\* and the mock provider in every other case; a missing credential never
\* prevents the construction.
C11_ProviderSelection ==
    /\ selectedProvider = "none" => ENABLED AIService
    /\ selectedProvider # "none" =>
          /\ selectedProvider \in {"ClaudeProvider", "GoogleProvider", "MockProvider"}
          /\ selectedProvider = "ClaudeProvider" <=>
                ConfiguredClaude /\ KeyPresent(env.CLAUDE_API_KEY)
          /\ selectedProvider = "GoogleProvider" <=>
                ConfiguredGoogle /\ KeyPresent(env.GOOGLE_API_KEY)

C11_Witness ==
    /\ selectedProvider = "MockProvider"
    /\ ConfiguredGoogle
    /\ env.GOOGLE_API_KEY = Unset
    /\ KeyPresent(env.CLAUDE_API_KEY)

\* C12: after startup no call changes the selected provider; a call invokes at
\* most one provider method, that of the selected provider, and a failing call
\* rejects with the very error that was raised.
C12_ProviderNeverChanges ==
    /\ [][selectedProvider # "none" => selectedProvider' = selectedProvider]_vars
    /\ [](\A k \in AiCalls :
            /\ Len(ai[k].invoked) <= 1
            /\ \A i \in 1..Len(ai[k].invoked) : ai[k].invoked[i] = selectedProvider
            /\ ai[k].raised # <<>> =>
                  /\ ai[k].pc = "done"
                  /\ ai[k].settled = "rejected"
                  /\ ai[k].error = ai[k].raised)

C12_Witness ==
    \E k \in AiCalls :
        /\ ai[k].settled = "rejected"
        /\ ai[k].invoked = <<"GoogleProvider">>
        /\ ai[k].error = ProviderError.message

\* C13: whichever provider is selected, a chat query that finds at least one
\* stored document and whose backend call does not fail resolves with type
\* 'ai_response'.
C13_EveryProviderAnswers ==
    \A q \in Chats :
        ( /\ chat[q].pc = "done"
          /\ chat[q].lookup = "ok"
          /\ chat[q].found > 0
          /\ chat[q].thrown # ProviderError.message ) =>
            chat[q].type = "ai_response"

\* C16 as stated: "First Name" and "first-name!" both normalize to "first_name".
C16_SameNormalForm ==
    (nk.pc # "key" /\ nk.key \in {KeyFirstName, KeyFirstNameHyphen}) =>
        nk.once = <<"f", "i", "r", "s", "t", "_", "n", "a", "m", "e">>

\* C16: normalizeKey lower-cases and removes punctuation without putting a
\* separator in its place: "First Name" and "first name!" normalize to
\* "first_name", "first-name!" normalizes to "firstname", and no result holds
\* an upper-case letter, a punctuation mark or whitespace.
C16_CaseAndPunctuation ==
    nk.pc # "key" =>
        /\ nk.key \in {KeyFirstName, KeyFirstNameBang} =>
              nk.once = <<"f", "i", "r", "s", "t", "_", "n", "a", "m", "e">>
        /\ nk.key = KeyFirstNameHyphen =>
              nk.once = <<"f", "i", "r", "s", "t", "n", "a", "m", "e">>
        /\ \A i \in 1..Len(nk.once) :
              nk.once[i] \in Range(LowerCase) \cup Range(Digits) \cup {"_"}

C16_Witness ==
    /\ nk.pc = "once"
    /\ nk.key = KeyFirstNameHyphen
    /\ nk.once = <<"f", "i", "r", "s", "t", "n", "a", "m", "e">>

\* C17: normalizeKey applied to its own result returns that result.
C17_Idempotent ==
    nk.pc = "twice" => nk.twice = nk.once

C17_Witness ==
    /\ nk.pc = "twice"
    /\ nk.key = <<"!", " ", "A">>
    /\ nk.once = <<"_", "a">>
    /\ nk.twice = <<"_", "a">>

NonEmptyPairs(keyValuePairs) ==
    SelectSeq(keyValuePairs, LAMBDA pair : ~IsEmptyValue(pair.value))

Added == SubSeq(kvIndex, Len(ix.before) + 1, Len(kvIndex))

\* C14: a completed indexKeyValuePairs call leaves the old entries alone, adds
\* exactly one entry per pair whose value is not null, undefined or the empty
\* string, in the order of the pairs, and returns the number of those pairs.
C14_OneEntryPerPair ==
    (ix.op = "indexKeyValuePairs" /\ ~ix.threw) =>
        LET pairs == NonEmptyPairs(ix.keyValuePairs) IN
        /\ SubSeq(kvIndex, 1, Len(ix.before)) = ix.before
        /\ Len(Added) = Len(pairs)
        /\ \A i \in 1..Min(Len(Added), Len(pairs)) :
              /\ Added[i].documentId = ix.documentId
              /\ Added[i].key = pairs[i].key
              /\ Added[i].value = pairs[i].value
        /\ ix.returned = Len(pairs)

AllKeys == SearchKeys \cup {KeyEMail, KeyUserEmail}
Limits  == {SearchLimit(limit) : limit \in LimitParams}

\* C15: right after removeDocumentIndex(id) returned, no exact or partial
\* search, for any key and limit, returns an entry of id; the count returned is
\* the number of entries that referenced id; the entries of every other document
\* are as before; for a document without entries the count is 0 and the
\* collection is unchanged.
C15_RemoveDocumentIndex ==
    ix.op = "removeDocumentIndex" =>
        /\ \A keyName \in AllKeys, limit \in Limits :
              /\ \A r \in searchByKeyExact(kvIndex, keyName, limit) :
                    \A i \in 1..Len(r.results) :
                        r.results[i].documentId # ix.documentId
              /\ \A r \in searchByKeyPartial(kvIndex, keyName, limit) :
                    \A g \in 1..Len(r.results) :
                        r.results[g].documentId # ix.documentId
        /\ ix.returned = Len(EntriesOf(ix.before, ix.documentId))
        /\ \A d \in Docs \ {ix.documentId} :
              EntriesOf(kvIndex, d) = EntriesOf(ix.before, d)
        /\ EntriesOf(ix.before, ix.documentId) = <<>> =>
              ix.returned = 0 /\ kvIndex = ix.before

C15_Witness ==
    /\ ix.op = "removeDocumentIndex"
    /\ ix.returned = 2
    /\ kvIndex # <<>>


RECURSIVE SumOfCounts(_)
SumOfCounts(valueFrequency) ==
    IF valueFrequency = <<>> THEN 0
    ELSE Head(valueFrequency).count + SumOfCounts(Tail(valueFrequency))

NewestFirst(results) ==
    \A i, j \in 1..Len(results) :
        i < j => results[i].extractedAt >= results[j].extractedAt

NoRepetition(values) ==
    \A i, j \in 1..Len(values) : values[i] = values[j] => i = j

\* C18: an exact search returns only stored entries whose raw key equals the
\* key searched, at most limit of them (none for a limit below 1), newest first;
\* the counts of
\* valueFrequency add up to totalResults; uniqueValues holds each value of the
\* results once; totalDocuments is the number of distinct documents among the
\* results.
C18_ExactSearch ==
    (ix.op = "searchByKeyExact" /\ ~ix.threw) =>
        LET r == ix.returned IN
        /\ \A i \in 1..Len(r.results) :
              r.results[i] \in Range(kvIndex) /\ r.results[i].key = ix.keyName
        /\ Len(r.results) <= Max(ix.limit, 0)
        /\ NewestFirst(r.results)
        /\ SumOfCounts(r.valueFrequency) = r.totalResults
        /\ r.totalResults = Len(r.results)
        /\ NoRepetition(r.uniqueValues)
        /\ Range(r.uniqueValues) = {r.results[i].value : i \in 1..Len(r.results)}
        /\ r.totalDocuments =
              Cardinality({r.results[i].documentId : i \in 1..Len(r.results)})

\* C19: a partial search finds only stored entries whose normalized key holds
\* the normalized input as a substring, newest first and at most limit of them
\* (all of them when fewer match); each document has exactly one group;
\* totalMatches is the sum of the groups' matches and totalDocuments the number
\* of groups.
C19_PartialSearch ==
    (ix.op = "searchByKeyPartial" /\ ~ix.threw) =>
        LET r == ix.returned
            matching == {e \in Range(kvIndex) :
                            includes(e.keyNormalized, normalizeKey(ix.keyName))} IN
        /\ Range(r.found) \subseteq matching
        /\ Len(r.found) <= Max(ix.limit, 0)
        /\ Len(r.found) < ix.limit => Range(r.found) = matching
        /\ NewestFirst(r.found)
        /\ \A g, h \in 1..Len(r.results) :
              r.results[g].documentId = r.results[h].documentId => g = h
        /\ {r.results[g].documentId : g \in 1..Len(r.results)} =
              {r.found[i].documentId : i \in 1..Len(r.found)}
        /\ r.totalMatches = Len(r.found)
        /\ r.totalDocuments = Len(r.results)

\* what GET /api/chat/history/:sessionId reads: the messages of the document
\* findOne({ sessionId }) delivers
Transcript(sessionId) ==
    IF SessionsOf(chatHistory, sessionId) = <<>> THEN <<>>
    ELSE SessionsOf(chatHistory, sessionId)[1].messages

\* C20: the transcript of every session holds two messages per query answered
\* since the session was last cleared, a user message followed by the assistant
\* message of the same request.
C20_TranscriptPairs ==
    \A s \in SessionIds :
        LET t == Transcript(s) IN
        /\ Len(t) = 2 * answered[s]
        /\ \A i \in 1..Len(t) :
              /\ t[i].type = IF i % 2 = 1 THEN "user" ELSE "ai"
              /\ i % 2 = 1 => i < Len(t) /\ t[i + 1].request = t[i].request

(***************************************************************************)
(* The chat history: timestamps and reads                                  *)
(***************************************************************************)
\* C21: in every reachable state the messages array of each stored chat session
\* is strictly ordered by timestamp: each message's timestamp is greater than
\* its predecessor's, also when queries of one session run concurrently.
C21_StrictTimestampOrder ==
    \A d \in 1..Len(chatHistory) :
        LET messages == chatHistory[d].messages IN
        \A i \in 1..(Len(messages) - 1) :
            messages[i].timestamp < messages[i + 1].timestamp

\* the N a history request asked for
RequestedLimit(r) ==
    IF r.limit.set THEN parseInt(r.limit.value).value ELSE DefaultHistoryLimit

LastOf(s, n) == SubSeq(s, Len(s) - n + 1, Len(s))

\* C22: GET /api/chat/history/:sessionId with limit N answers with the most
\* recent N messages in chronological order: never more than N messages, for
\* every integer N, 0 and negative values included, and exactly the last
\* min(N, total) messages.
C22_HistoryLimit ==
    \A k \in Posts :
        (cq[k].route = "history" /\ cq[k].status = 200) =>
            LET n == Max(RequestedLimit(cq[k]), 0) IN
            /\ Len(cq[k].messages) <= n
            /\ cq[k].messages =
                  LastOf(sortByTimestamp(cq[k].stored), Min(n, Len(cq[k].stored)))

\* a query of session s is being served
QueryInFlight(s) ==
    \E k \in Posts : /\ cq[k].route = "query"
                     /\ cq[k].pc \notin {"idle", "responded"}
                     /\ cq[k].sessionId \in {s, NoSessionId}

\* C29: in every reachable state there is at most one ChatHistory record per
\* sessionId, also after two concurrent first queries with the same new
\* sessionId; hence once a clear of the session completed, with no query in
\* flight and none stored since, a read of the session finds no message.
C29_OneRecordPerSession ==
    \A s \in SessionIds :
        /\ Len(SessionsOf(chatHistory, s)) <= 1
        /\ (answered[s] = 0 /\ ~QueryInFlight(s)) => SessionsOf(chatHistory, s) = <<>>

(***************************************************************************)
(* The upload route: the stored tag, the error response, persistence       *)
(***************************************************************************)
\* C23: the processingMethod stored on every persisted Document names the
\* backend that produced its key-value pairs: 'mock' when the MockProvider was
\* the selected provider (by default or in place of a provider without
\* credentials), and 'claude' or 'google' only when that provider extracted.
C23_ProcessingMethodNamesBackend ==
    \A doc \in formData : \A u \in Uploads :
        (doc.id = u /\ up[u].saved) =>
            /\ up[u].provider = "MockProvider" => doc.processingMethod = MethodMock
            /\ doc.processingMethod = MethodClaude => up[u].provider = "ClaudeProvider"
            /\ doc.processingMethod = MethodGoogle => up[u].provider = "GoogleProvider"

\* the upload u ended in the catch block of the route
Caught(u) == up[u].status = 500 /\ up[u].failed # "fileFilter"

Production == env.NODE_ENV = EnvVar(<<"p", "r", "o", "d", "u", "c", "t", "i", "o", "n">>)

\* C24: in production mode the body of a failed document-processing response
\* does not depend on the error: whatever the error's message, stack and
\* processingStep, the body is the same and has no details block; in every other
\* mode the details block is present and carries the error's processingStep
\* ('unknown' for an error that has none).
C24_ProductionHidesError ==
    \A u \in Uploads :
        Caught(u) =>
            IF Production
            THEN up[u].body = [error   |-> "Failed to process document. Please try again.",
                               details |-> NoDetails]
            ELSE /\ up[u].body.details.present
                 /\ up[u].body.details.processingStep =
                      IF up[u].error.processingStep = "undefined"
                      THEN "unknown" ELSE up[u].error.processingStep

\* a failed upload in production mode whose error carries a message and a step
C24_Witness ==
    \E u \in Uploads :
        /\ Caught(u)
        /\ Production
        /\ up[u].error.processingStep \notin {"undefined", "UNKNOWN"}
        /\ up[u].error.message # <<>>

\* C30: POST /api/process-document is all-or-nothing with respect to
\* persistence: once it responded with an error status (400 or 500), neither a
\* Document nor a KeyValueIndex entry created by the request is in the stores.
C30_AllOrNothing ==
    \A u \in Uploads :
        up[u].status \in {400, 500} =>
            /\ ~ \E doc \in formData : doc.id = u
            /\ EntriesOf(kvIndex, u) = <<>>

(***************************************************************************)
(* extractFromPDF: the heuristic as documented                             *)
(***************************************************************************)
\* the trimmed text is longer than 20 characters and more than 0.3 of its
\* non-whitespace characters are alphanumeric
DocumentedReadable(cleanText) ==
    /\ Length(cleanText) > MinTextLength
    /\ RatioDen * (cleanText.srnt + cleanText.alnum)
          > RatioNum * (Length(cleanText) - cleanText.ws)

\* C25: extractFromPDF returns the parsed text as-is if and only if the trimmed
\* text is longer than 20 characters and (alphanumeric characters) /
\* (non-whitespace characters) is greater than 0.3; otherwise it takes the
\* scanned-PDF fallback.
C25_ReadableTextHeuristic ==
    \A c \in Calls :
        \A i \in 1..Len(dp[c].log) :
            LET entry == dp[c].log[i] IN
            (entry.op = "pdfParse" /\ ~entry.threw) =>
                IF DocumentedReadable(Trim(entry.text))
                THEN /\ dp[c].pc = "done"
                     /\ dp[c].result.kind = "text"
                     /\ dp[c].result.text = Trim(entry.text)
                     /\ ~InLog(dp[c], "extractFromScannedPDF")
                ELSE \/ dp[c].pc = "extractFromScannedPDF"
                     \/ InLog(dp[c], "extractFromScannedPDF")

\* the calls of extractWithTesseract made by the frame so far: those that
\* settled, and the one in progress
TesseractCalls(f) ==
    Cardinality({i \in 1..Len(f.log) : TesseractEntry(f.log[i])})
        + (IF f.pc \in {"preprocessImage", "recognize"} THEN 1 ELSE 0)

\* C28: within one extractFromImage call the local OCR engine
\* (extractWithTesseract with its preprocessing) is invoked at most once, on
\* every path: cloud success, cloud failure, and cloud returning empty text
\* followed by a local OCR failure.
C28_TesseractAtMostOnce ==
    \A c \in Calls : TesseractCalls(dp[c]) <= 1

(***************************************************************************)
(* The MockProvider                                                        *)
(***************************************************************************)
Extracted == mk.pc = "done" /\ mk.op = "extractKeyValuePairs"

\* where a pair is first seen among the candidates
FirstSeen(candidates, pair) ==
    CHOOSE i \in 1..Len(candidates) :
        candidates[i] = pair /\ \A j \in 1..(i - 1) : candidates[j] # pair

\* C26 as stated: MockProvider.extractKeyValuePairs returns at most 20 pairs, and
\* exactly 20 for every text that produces more than 20 raw candidate pairs,
\* counted before deduplication.
C26_ExactlyTwentyOfRaw ==
    Extracted =>
        /\ Len(mk.pairs) <= MaxPairs
        /\ Len(rawPairs(mk.text)) > MaxPairs => Len(mk.pairs) = MaxPairs

\* C26, amended: the result is the distinct candidate pairs in first-seen order,
\* cut after the 20th: at most 20 pairs, and exactly 20 for every text that
\* produces at least 20 distinct candidate pairs.
C26_TwentyOfDistinct ==
    Extracted =>
        LET candidates == rawPairs(mk.text)
            seen == [i \in 1..Len(mk.pairs) |-> FirstSeen(candidates, mk.pairs[i])] IN
        /\ Len(mk.pairs) = Min(MaxPairs, Cardinality(Range(candidates)))
        /\ Range(mk.pairs) \subseteq Range(candidates)
        /\ \A i \in 1..(Len(seen) - 1) : seen[i] < seen[i + 1]
        /\ \A pair \in Range(candidates) \ Range(mk.pairs) :
              seen[Len(seen)] < FirstSeen(candidates, pair)

\* more than 20 distinct candidates, of which some are seen again
C26_Witness ==
    /\ Extracted
    /\ LET candidates == rawPairs(mk.text) IN
       /\ Cardinality(Range(candidates)) > MaxPairs
       /\ Len(candidates) > Cardinality(Range(candidates))
    /\ Len(mk.pairs) = MaxPairs

\* the unique values among the matches of the question
MatchingValues ==
    LET matches == relevantMatches(mk.userQuery, mk.documentData) IN
    Unique([m \in 1..Len(matches) |-> matches[m].value])

\* C27: MockProvider.chatQuery shapes its answer by the number of unique matching
\* values: none gives the fixed not-found message; one gives that value
\* emphasized; two or three give the list of the emphasized values; more than
\* three give the first three emphasized values and the count of the remaining
\* values, those not shown.
C27_AnswerShape ==
    (mk.pc = "done" /\ mk.op = "chatQuery") =>
        LET n == Len(MatchingValues) IN
        IF n = 0 THEN mk.answer = Answer(NotFoundMsg, 0, <<>>)
        ELSE IF n <= 3 THEN mk.answer = Answer("", 0, MatchingValues)
        ELSE /\ mk.answer.emphasized = SubSeq(MatchingValues, 1, 3)
             /\ mk.answer.found = n - 3


====
